---- MODULE Spec2Model ----
(***************************************************************************)
(* Masonry Reactions of hexo-theme-Redefine-X.                             *)
(*                                                                         *)
(*   scripts/masonry-reactions.js            the build-time reconciler     *)
(*   scripts/masonry-generator.js            the masonry_pages generator   *)
(*   source/js/plugins/masonry-reactions.source.js   the Reaction Client   *)
(*                                                                         *)
(* Nine specifications share the module:                                   *)
(*   SpecBody    buildCommentBody / parseImageId on bounded image entries  *)
(*   Spec        one build of the reconciler against a remote repository,  *)
(*               followed by the generator                                 *)
(*   SpecBuilds  several builds in one process                             *)
(*   SpecClient  the Reaction Client in one browser tab, two gallery       *)
(*               pages with one image each                                 *)
(*   SpecPaged   the Reaction Client on one gallery page with two images   *)
(*   SpecRetry   one build against an API that fails up to three times     *)
(*   SpecExpiry  the Reaction Client on one gallery page, with a clock     *)
(*   SpecMatch   initializeHeartButtons on bounded manifests and documents *)
(*   SpecRelay   workflows/giscus-cors-proxy/worker.js, the CORS relay     *)
(*                                                                         *)
(* JavaScript strings are sequences of tokens.  A token is a piece of text *)
(* that no search of the code splits: the literals the code searches for   *)
(* (the backtick, "masonry-image:", "<img ", the legacy comment            *)
(* delimiters, the line feed) are tokens of their own, and free text       *)
(* (titles, names) is made of word tokens, " " and the former.  A null,    *)
(* undefined or empty string is <<>>: the code tests strings by            *)
(* truthiness only.                                                        *)
(***************************************************************************)
EXTENDS Integers, Sequences, FiniteSets, TLC

VARIABLES
  \* ---- SpecBody
  imageData,      \* the manifest entry handed to buildCommentBody
  context,        \* the page context handed to buildCommentBody
  commentBody,    \* the body built from it
  parsedId,       \* parseImageId(commentBody)
  bpc             \* "start" | "built" | "parsed" | "off"

bodyVars == <<imageData, context, commentBody, parsedId, bpc>>

VARIABLES
  \* ---- SpecRelay: workflows/giscus-cors-proxy/worker.js
  request,        \* the request the worker is handling
  response,       \* the Response the worker returned for it
  fetched,        \* the requests the worker sent to giscus.app for it
  rpc             \* "idle" | "fetching" | "answered" | "off"

relayVars == <<request, response, fetched, rpc>>

VARIABLES
  \* ---- SpecMatch: initializeHeartButtons of the Reaction Client
  imageIds,       \* the imageIds of the page config, in manifest order
  containers,     \* the .image-container elements of the document, in order
  mpc             \* "ready" | "matched" | "rematched" | "off"

matchVars == <<imageIds, containers, mpc>>

\* the variables of the specifications of one unit each
unitVars == <<bodyVars, relayVars, matchVars>>

VARIABLES
  \* ---- Spec: the repository on GitHub and the build's input
  manifest,            \* page -> the images of the gallery page, in order
  remote,              \* page -> the discussion of that page on GitHub
  \* ---- Spec: module state of scripts/masonry-reactions.js
  rateLimitRemaining,  \* NoValue (null) or the last x-ratelimit-remaining
  abortAll,
  \* ---- Spec: the before_generate handler
  pc,                  \* "idle" | "search" | "loop" | "inpage" | "done"
  existingDiscussions, \* page -> the discussion the batch search matched
  pageIdx,             \* index into allPageInfos
  successCount,
  \* ---- Spec: processPageReactions
  ppc,                 \* position in processPageReactions, "none" outside
  discussion,
  allComments,
  pageInfo,
  commentsToUpdate,
  newImages,
  loopIdx,             \* index of the for-of loop in progress
  attempt,             \* executeMutation's attempt
  created,             \* an addDiscussionComment request went out for this page
  waited,              \* the backoff executeMutation has just slept, NoBackoff if none
  thrown,              \* the message of the error the catch of lines 654-662 logged
  \* ---- Spec: observation
  callNo,              \* parity of the number of API requests sent so far
  lastCall,            \* the last API request sent
  everZero,            \* rateLimitRemaining has been 0 since the build began
  faults,              \* failures the API may still answer with
  prior                \* remote as it was when the build began

VARIABLES
  \* ---- Spec, SpecBuilds: the hexo instance around the handler
  config,           \* the configuration the handler read in this build
  summary,          \* the count of the "Done." line (line 771), NoValue if not logged
  generated,        \* page -> the page the masonry_pages generator pushed
  \* ---- Spec, SpecBuilds: observation
  results,          \* what processPageReactions returned, one entry per page entered
  builds,           \* builds started in this process
  leftAbort         \* abortAll as the previous build left it

VARIABLES
  \* ---- SpecClient, SpecPaged: the browser and the services
  present,          \* the images the gallery pages of the site list
  session,          \* localStorage holds a giscus-session
  server,           \* image -> the HEART reactions GitHub holds for its comment
  cache,            \* page -> the sessionStorage entry of its discussionTerm
  buttons,          \* image -> the heart button in the document, NoButton if none
  domPage,          \* the gallery page the document shows
  location,         \* "site" | "oauth" | "off"
  tasks,            \* the asynchronous operations in flight
  now,              \* Date.now(), in units of CACHE_TTL
  \* ---- SpecClient: module state of masonry-reactions.source.js
  currentPagePath,  \* 0 for ""
  imageReactions,   \* image -> ReactionState, NoEntry if none
  userToken,        \* 0 for null
  isAuthenticated,
  isInitialized,
  \* ---- SpecClient: observation
  lastToggle,       \* the toggle that completed in the last step, NoToggle if none
  lastInit          \* the init that passed its token exchange in the last step

clientVars == <<present, session, server, cache, buttons, domPage, location, tasks, currentPagePath,
                imageReactions, userToken, isAuthenticated, isInitialized, lastToggle,
                now, lastInit>>

envVars == <<manifest, remote>>
buildVars == <<rateLimitRemaining, abortAll, pc, existingDiscussions, pageIdx, successCount>>
pageVars == <<ppc, discussion, allComments, pageInfo, commentsToUpdate, newImages, loopIdx,
              attempt, created, waited, thrown>>
obsVars == <<callNo, lastCall, everZero, faults, prior>>
hexoVars == <<config, summary, generated, results, builds, leftAbort>>
recVars == <<envVars, buildVars, pageVars, obsVars, hexoVars>>

vars == <<unitVars, recVars, clientVars>>

\* the backtick character (a string of the module cannot hold one)
BT == "[backtick]"

Min(S) == CHOOSE x \in S : \A y \in S : x <= y

RECURSIVE JoinLines(_)
\* lines.join('\n')
JoinLines(ls) ==
  IF ls = <<>> THEN <<>>
  ELSE IF Len(ls) = 1 THEN ls[1]
  ELSE ls[1] \o <<"\n">> \o JoinLines(Tail(ls))

\* s.includes(t) for a one-token literal t
Includes(s, t) == \E i \in 1..Len(s) : s[i] = t

\* s.includes(lit) for a literal of several tokens
IncludesSeq(s, lit) ==
  \E i \in 1..Len(s) : i + Len(lit) - 1 <= Len(s) /\ SubSeq(s, i, i + Len(lit) - 1) = lit

\* obj[key], undefined when the key is absent
Get(obj, key) == IF key \in DOMAIN obj THEN obj[key] ELSE <<>>

(***************************************************************************)
(* String.prototype.trim                                                   *)
(***************************************************************************)
WhiteSpace == {" ", "\n"}

RECURSIVE TrimLeft(_)
TrimLeft(s) == IF s # <<>> /\ Head(s) \in WhiteSpace THEN TrimLeft(Tail(s)) ELSE s

RECURSIVE TrimRight(_)
TrimRight(s) ==
  IF s # <<>> /\ s[Len(s)] \in WhiteSpace THEN TrimRight(SubSeq(s, 1, Len(s) - 1)) ELSE s

Trim(s) == TrimRight(TrimLeft(s))

(***************************************************************************)
(* String.prototype.match(/<open>(.+?)<close>/): the leftmost start, then  *)
(* the shortest non-empty run without a line terminator up to <close>.     *)
(***************************************************************************)
LazyEnds(s, from, close) ==
  { k \in (from + 1)..Len(s) : s[k] = close /\ \A j \in from..(k - 1) : s[j] # "\n" }

LazyCapture(s, open, close) ==
  LET n == Len(open)
      Starts == { i \in 1..Len(s) :
                    /\ i + n - 1 <= Len(s)
                    /\ SubSeq(s, i, i + n - 1) = open
                    /\ LazyEnds(s, i + n, close) # {} }
  IN IF Starts = {} THEN [matched |-> FALSE, group |-> <<>>]
     ELSE LET i == Min(Starts)
              k == Min(LazyEnds(s, i + n, close))
          IN [matched |-> TRUE, group |-> SubSeq(s, i + n, k - 1)]

(***************************************************************************)
(* scripts/masonry-reactions.js: helpers                                   *)
(***************************************************************************)
escapeToken(t) ==
  CASE t = "&" -> "&amp;"
    [] t = "<" -> "&lt;"
    [] t = ">" -> "&gt;"
    [] t = "\"" -> "&quot;"
    [] t = "<img " -> "&lt;img "
    [] t = "<!-- masonry-image-id: " -> "&lt;!-- masonry-image-id: "
    [] t = " -->" -> " --&gt;"
    [] OTHER -> t

escapeHtml(str) == [i \in 1..Len(str) |-> escapeToken(str[i])]

\* encodeURI on one token: letters, digits, "/", "." and "-" pass unchanged
encodeURIToken(t) ==
  CASE t = " " -> "%20"
    [] t = BT -> "%60"
    [] t = "\"" -> "%22"
    [] t = "<" -> "%3C"
    [] t = ">" -> "%3E"
    [] OTHER -> t

encodeURI(str) == [i \in 1..Len(str) |-> encodeURIToken(str[i])]

\* the extensions image ids of the model end in
ExtTokens == {".jpg", ".JPG", ".png", ".svg"}

toLowerCase(t) == IF t = ".JPG" THEN ".jpg" ELSE t

\* index of the last "/" of a path, 0 when it has none
LastSlash(p) ==
  LET S == { i \in 1..Len(p) : p[i] = "/" }
  IN IF S = {} THEN 0 ELSE CHOOSE i \in S : \A j \in S : j <= i

\* path.extname: the extension of the last segment, "" for none or a dotfile
extname(p) ==
  IF Len(p) >= LastSlash(p) + 2 /\ p[Len(p)] \in ExtTokens THEN p[Len(p)] ELSE ""

\* path.posix.basename(p, ext): the last segment, without ext when it ends in it
basename(p, ext) ==
  LET seg == SubSeq(p, LastSlash(p) + 1, Len(p))
  IN IF Len(seg) >= 2 /\ seg[Len(seg)] = ext THEN SubSeq(seg, 1, Len(seg) - 1) ELSE seg

\* path.posix.dirname(p)
dirname(p) == IF LastSlash(p) = 0 THEN <<".">> ELSE SubSeq(p, 1, LastSlash(p) - 1)

BITMAP_EXTS == {".jpg", ".jpeg", ".png", ".gif", ".webp"}

buildImageUrl(siteUrl, imageId, avifEnabled) ==
  LET ext == toLowerCase(extname(imageId))
      isBitmap == ext \in BITMAP_EXTS
      base == basename(imageId, ext)
      dir == dirname(imageId)
      relDir == IF dir = <<".">> THEN <<"masonry">> ELSE <<"masonry", "/">> \o dir
      imagePath == IF avifEnabled /\ isBitmap
                   THEN <<"build", "/">> \o relDir \o <<"/">> \o base \o <<".avif">>
                   ELSE <<"masonry", "/">> \o imageId
  IN siteUrl \o <<"/">> \o encodeURI(imagePath)

FIELD_DEFS ==
  << [key |-> "make", label |-> "Camera"],
     [key |-> "model", label |-> "Model"],
     [key |-> "lensModel", label |-> "Lens"],
     [key |-> "focalLength", label |-> "Focal Length"],
     [key |-> "aperture", label |-> "Aperture"],
     [key |-> "exposureTime", label |-> "Shutter"],
     [key |-> "ISOSpeedRatings", label |-> "ISO"],
     [key |-> "exposureProgram", label |-> "Exposure Program"],
     [key |-> "exposureBias", label |-> "Exposure Comp."],
     [key |-> "meteringMode", label |-> "Metering"],
     [key |-> "flash", label |-> "Flash"],
     [key |-> "whiteBalance", label |-> "White Balance"],
     [key |-> "focusMode", label |-> "Focus Mode"],
     [key |-> "dateTimeOriginal", label |-> "Date Taken"],
     [key |-> "GPSLatitude", label |-> "Latitude"],
     [key |-> "GPSLongitude", label |-> "Longitude"],
     [key |-> "GPSAltitude", label |-> "Altitude"] >>

RECURSIVE ExifFrom(_, _)
ExifFrom(data, i) ==
  IF i > Len(FIELD_DEFS) THEN <<>>
  ELSE LET val == Get(data, FIELD_DEFS[i].key)
       IN (IF Trim(val) # <<>>
           THEN << [label |-> <<FIELD_DEFS[i].label>>, value |-> Trim(val)] >>
           ELSE <<>>) \o ExifFrom(data, i + 1)

extractExifFields(data) == ExifFrom(data, 1)

pageUrlOf(ctx) == ctx.siteUrl \o <<"/">> \o encodeURI(ctx.pagePath)

buildDiscussionBody(ctx) ==
  LET pageUrl == pageUrlOf(ctx)
  IN JoinLines(<<
       <<"# ">> \o ctx.pageTitle,
       <<>>,
       <<"Hey there! This is the reactions tracker for **[">> \o ctx.pageTitle
          \o <<"](">> \o pageUrl \o <<")**.">>,
       <<>>,
       <<"This gallery has **", ctx.imageCount,
         "** photos. Each comment below represents one photo.">>,
       <<>>,
       <<"If you see something you like, leave a :heart: **heart reaction** on its comment and it'll show up as a like on the [gallery page](">>
          \o pageUrl \o <<"). You can also click the heart button directly on the gallery!">>,
       <<>>,
       <<"> **Note:** Only :heart: heart reactions are counted as likes. Other emoji reactions, upvotes, or discussion votes won't be tracked.">>,
       <<>>,
       <<"---">>,
       <<>>,
       <<"**">> \o ctx.blogTitle \o <<"** by ">> \o ctx.blogAuthor \o <<" | [">>
          \o ctx.siteUrl \o <<"](">> \o ctx.siteUrl \o <<")">>,
       <<>>,
       <<"*Powered by [", "hexo-theme-redefine-x",
         "](https://github.com/EvanNotFound/hexo-theme-redefine) masonry reactions*">> >>)

exifRow(f) ==
  <<"      <b>">> \o escapeHtml(f.label) \o <<":</b> ">> \o escapeHtml(f.value) \o <<"<br>">>

imgTag(imageUrl, altText) ==
  <<"<img ", "src=\"">> \o imageUrl \o <<"\" alt=\"">> \o altText \o <<"\" width=\"400\" />">>

buildCommentBody(data, ctx) ==
  LET imageId == data.image
      title == Get(data, "title")
      description == Get(data, "description")
      altText == escapeHtml(IF title # <<>> THEN title ELSE imageId)
      pageUrl == pageUrlOf(ctx)
      imageUrl == buildImageUrl(ctx.siteUrl, imageId, ctx.avifEnabled)
      exifFields == extractExifFields(data)
      hasExif == Len(exifFields) > 0
      lines ==
        << <<"Love this shot? Head over to [">> \o ctx.pageTitle \o <<"](">> \o pageUrl
             \o <<") and drop a heart, or react with :heart: right here!">>,
           <<>> >>
        \o (IF title # <<>> THEN << <<"### ">> \o title, <<>> >> ELSE <<>>)
        \o (IF description # <<>> THEN << <<"> ">> \o description, <<>> >> ELSE <<>>)
        \o (IF hasExif
            THEN << <<"<table>">>,
                    <<"  <tr>">>,
                    <<"    <td width=\"60%\" align=\"center\">">> \o imgTag(imageUrl, altText)
                       \o <<"</td>">>,
                    <<"    <td width=\"40%\">">> >>
                 \o [i \in 1..Len(exifFields) |-> exifRow(exifFields[i])]
                 \o << <<"    </td>">>, <<"  </tr>">>, <<"</table>">> >>
            ELSE << <<"<p align=\"center\">">> \o imgTag(imageUrl, altText) \o <<"</p>">> >>)
        \o << <<>>, <<BT, "masonry-image:">> \o imageId \o <<BT>> >>
  IN JoinLines(lines)

\* the value parseImageId returns for no match (null)
NoId == <<>>

parseImageIdBacktickFirst(body) ==
  IF body = <<>> THEN NoId
  ELSE LET m1 == LazyCapture(body, <<BT, "masonry-image:">>, BT)
       IN IF m1.matched THEN Trim(m1.group)
          ELSE LET m2 == LazyCapture(body, <<"<!-- masonry-image-id: ">>, " -->")
               IN IF m2.matched THEN Trim(m2.group) ELSE NoId

parseImageId(body) == parseImageIdBacktickFirst(body)

hasVisibleImageTag(body) == body # <<>> /\ IncludesSeq(body, <<BT, "masonry-image:">>)

isCurrentFormat(body) ==
  IF body = <<>> THEN FALSE
  ELSE Includes(body, "<img ") /\ IncludesSeq(body, <<BT, "masonry-image:">>)

(***************************************************************************)
(* The bounded manifest vocabulary                                         *)
(***************************************************************************)
SiteUrl == <<"https://example.org">>

\* image ids: manifest-relative paths
IdSunset == <<"sunset", ".jpg">>
IdBeach  == <<"trip", "/", "beach", ".jpg">>
IdPhoto  == <<"my", " ", "photo", ".JPG">>
IdLogo   == <<"logo", ".svg">>
ImageIds == {IdSunset, IdBeach, IdPhoto, IdLogo}

\* free-text fields: plain text, text quoting a marker, text with HTML in it
Titles ==
  { <<>>, <<"Sunset">>, <<"Dawn", " ", "&", " ", "dusk">>,
    <<"see", " ", BT, "masonry-image:">> \o IdBeach \o <<BT>>,
    <<"<img ", "x", ">">> }
Descriptions ==
  { <<>>, <<"Golden", " ", "hour">>,
    <<"<!-- masonry-image-id: ">> \o IdBeach \o <<" -->">> }
Makes == { <<>>, <<" ">>, <<"Canon">>, <<BT, "Nikon", BT>> }

EntryOf(id, t, d, m) ==
  [image |-> id, title |-> t, description |-> d, make |-> m]

ContextOf(pageTitle, n, avif) ==
  [ pageTitle |-> pageTitle,
    pagePath |-> <<"masonry", "/">> \o pageTitle \o <<"/">>,
    imageCount |-> n,
    siteUrl |-> SiteUrl,
    blogTitle |-> <<"Blog">>,
    blogAuthor |-> <<"Author">>,
    avifEnabled |-> avif ]

(***************************************************************************)
(* The reconciler's world: bounds, pages, the repository on GitHub         *)
(***************************************************************************)
NumPages == 2        \* gallery pages of the manifest
MaxComments == 3     \* comments a discussion holds before the build
PageSize == 2        \* comments per fetched page: stands for first: 100
MaxRemaining == 1    \* largest x-ratelimit-remaining the API answers with
MaxBuilds == 2       \* builds of one process
MaxFaults == 1       \* failures the API answers with in one process

BATCH_SIZE == 10
REACTIONS_PREFIX == "[masonry-reactions] "

\* null for rateLimitRemaining, undefined for the x-ratelimit-remaining header
NoValue == -1

Pages == 1..NumPages
Headers == {NoValue} \cup 0..MaxRemaining

pageTitleOf(p) == <<"Album", ToString(p)>>
pagePathOf(p) == <<"masonry", "/">> \o pageTitleOf(p) \o <<"/">>
termOf(p) == <<REACTIONS_PREFIX>> \o pagePathOf(p)

\* the body createReactionsDiscussion wrote before buildDiscussionBody existed
oldDiscussionBody(p) ==
  JoinLines(<<
    <<"This discussion is auto-generated for tracking photo reactions on the masonry page: ",
      BT>> \o pagePathOf(p) \o <<BT>>,
    <<>>,
    <<"Please do not delete or modify this discussion. Comments here are mapped to individual photos.">>,
    <<>>,
    <<"---">>,
    <<"*Generated by hexo-masonry-reactions*">> >>)

\* the comment addImageComment wrote before buildCommentBody existed
oldCommentBody(imageId, imageTitle) ==
  <<"<!-- masonry-image-id: ">> \o imageId \o <<" -->", "\n", "[camera] **">>
    \o (IF imageTitle # <<>> THEN imageTitle ELSE imageId)
    \o <<"**", "\n", "\n", BT, "masonry-image:">> \o imageId \o <<BT>>

\* a comment somebody typed by hand
manualCommentBody == <<"Nice", " ", "photos!">>

NoRemote ==
  [exists |-> FALSE, body |-> <<>>, locked |-> FALSE, comments |-> <<>>, extra |-> 0]

\* comments(first: 100, after: $after) { pageInfo { hasNextPage endCursor } nodes { id body } }
commentsPage(cs, after) ==
  LET last == Min({Len(cs), after + PageSize})
  IN [ pageInfo |-> [hasNextPage |-> Len(cs) > last,
                     endCursor |-> IF last > after THEN last ELSE 0],
       nodes |-> SubSeq(cs, after + 1, last) ]

\* the node the search returns for the discussion of page p
searchNode(p) ==
  [ id |-> p, number |-> p, title |-> termOf(p),
    body |-> remote[p].body, locked |-> remote[p].locked,
    comments |-> commentsPage(remote[p].comments, 0) ]

\* the page context the handler builds (lines 714-727)
avifEnabled == TRUE
contextOfPage(p) == ContextOf(pageTitleOf(p), ToString(Len(manifest[p])), avifEnabled)

\* allPageInfos: the pages with at least one image, in manifest order
allPageInfos == SelectSeq([i \in 1..NumPages |-> i], LAMBDA p : Len(manifest[p]) > 0)

\* the loop of lines 752-768 walking allPageInfos from its end
curPageReversed == allPageInfos[Len(allPageInfos) + 1 - pageIdx]

\* lines 752-753: the page of the loop's iteration
curPage == allPageInfos[pageIdx]

NoDiscussion == [null |-> TRUE]
NoPageInfo == [hasNextPage |-> FALSE, endCursor |-> 0]
NoCall == [op |-> "none", page |-> 0, mutation |-> FALSE, target |-> <<>>, attempt |-> 0]
NoBackoff == [none |-> TRUE]

(***************************************************************************)
(* processPageReactions: the frame of the call                             *)
(***************************************************************************)
Frame ==
  [ ppc |-> ppc, discussion |-> discussion, allComments |-> allComments,
    pageInfo |-> pageInfo, commentsToUpdate |-> commentsToUpdate,
    newImages |-> newImages, loopIdx |-> loopIdx, attempt |-> attempt,
    created |-> created, waited |-> waited, thrown |-> thrown ]

EmptyFrame ==
  [ ppc |-> "none", discussion |-> NoDiscussion, allComments |-> <<>>,
    pageInfo |-> NoPageInfo, commentsToUpdate |-> <<>>, newImages |-> <<>>,
    loopIdx |-> 0, attempt |-> 0,
    created |-> FALSE, waited |-> NoBackoff, thrown |-> <<>> ]

SetFrame(f) ==
  /\ ppc' = f.ppc
  /\ discussion' = f.discussion
  /\ allComments' = f.allComments
  /\ pageInfo' = f.pageInfo
  /\ commentsToUpdate' = f.commentsToUpdate
  /\ newImages' = f.newImages
  /\ loopIdx' = f.loopIdx
  /\ attempt' = f.attempt
  /\ created' = f.created
  /\ waited' = f.waited
  /\ thrown' = f.thrown

\* processPageReactions goes on at the position of frame f
Resume(f) == SetFrame(f) /\ UNCHANGED <<pc, pageIdx, successCount, results>>

\* processPageReactions is left, err being the message its catch logged (<<>>
\* without an exception); the handler's loop counts a success (lines 759-767)
Leave(success, err) ==
  /\ SetFrame([EmptyFrame EXCEPT !.thrown = err])
  /\ pc' = "loop"
  /\ pageIdx' = pageIdx + 1
  /\ successCount' = IF success THEN successCount + 1 ELSE successCount
  /\ results' = Append(results, success)

\* processPageReactions returns
Return(success) == Leave(success, <<>>)

\* the catch of lines 655-662 returning true
ThrowCounted(err) == Leave(TRUE, err)

\* an exception reaches the catch of processPageReactions (lines 655-662)
Throw(err) == Leave(FALSE, err)

\* the error graphqlRequest rejects with (lines 69-74)
networkError == <<"socket hang up">>

\* lines 585-587
EnterFetch(f) ==
  [f EXCEPT !.ppc = "fetch",
            !.allComments = f.discussion.comments.nodes,
            !.pageInfo = f.discussion.comments.pageInfo,
            !.attempt = 0]

\* lines 557-561: the last entry of an imageId wins
imageDataMap(images, imageId) ==
  LET S == { i \in 1..Len(images) : images[i].image # <<>> /\ images[i].image = imageId }
  IN IF S = {} THEN <<>> ELSE images[CHOOSE i \in S : \A j \in S : j <= i]

\* lines 597-613: existingImageIds
existingImageIdsOf(comments) ==
  { parseImageId(comments[i].body) : i \in 1..Len(comments) } \ {NoId}

RECURSIVE commentsToUpdateFrom(_, _, _)
\* lines 597-613: commentsToUpdate
commentsToUpdateFrom(comments, images, i) ==
  IF i > Len(comments) THEN <<>>
  ELSE LET imageId == parseImageId(comments[i].body)
           imgData == imageDataMap(images, imageId)
       IN (IF imageId # NoId /\ ~isCurrentFormat(comments[i].body) /\ imgData # <<>>
           THEN << [commentId |-> comments[i].id, imageId |-> imageId, imgData |-> imgData] >>
           ELSE <<>>) \o commentsToUpdateFrom(comments, images, i + 1)

\* line 616
newImagesOf(images, existing) == SelectSeq(images, LAMBDA img : img.image \notin existing)

\* line 577
hasNewBody(d) == d.body # <<>> /\ Includes(d.body, "hexo-theme-redefine-x")

(***************************************************************************)
(* GitHub: what an accepted mutation does to the repository                *)
(***************************************************************************)
MutationLabels ==
  {"create", "updBody", "lockIdle", "unlock", "updComment", "addComment", "lockEnd"}

\* the two loops of lines 634-646 with their mutations exchanged
opOfSwapped(label) ==
  CASE label = "create" -> "createDiscussion"
    [] label = "updBody" -> "updateDiscussion"
    [] label \in {"lockIdle", "lockEnd"} -> "lockLockable"
    [] label = "unlock" -> "unlockLockable"
    [] label = "updComment" -> "addDiscussionComment"
    [] label = "addComment" -> "updateDiscussionComment"

opOf(label) ==
  CASE label = "create" -> "createDiscussion"
    [] label = "updBody" -> "updateDiscussion"
    [] label \in {"lockIdle", "lockEnd"} -> "lockLockable"
    [] label = "unlock" -> "unlockLockable"
    [] label = "updComment" -> "updateDiscussionComment"
    [] label = "addComment" -> "addDiscussionComment"

\* the variables of the mutation executeMutation is sending at this position
targetOf(label) ==
  CASE label = "updComment" -> commentsToUpdate[loopIdx].imageId
    [] label = "addComment" -> newImages[loopIdx].image
    [] OTHER -> <<>>

applyMutation(label, p) ==
  LET r == remote[p]
      ctx == contextOfPage(p)
  IN CASE label = "create" ->
            IF r.exists THEN [r EXCEPT !.extra = r.extra + 1]
            ELSE [exists |-> TRUE, body |-> buildDiscussionBody(ctx), locked |-> FALSE,
                  comments |-> <<>>, extra |-> 0]
       [] label = "updBody" -> [r EXCEPT !.body = buildDiscussionBody(ctx)]
       [] label \in {"lockIdle", "lockEnd"} -> [r EXCEPT !.locked = TRUE]
       [] label = "unlock" -> [r EXCEPT !.locked = FALSE]
       [] label = "updComment" ->
            [r EXCEPT !.comments[commentsToUpdate[loopIdx].commentId].body =
                        buildCommentBody(commentsToUpdate[loopIdx].imgData, ctx)]
       [] label = "addComment" ->
            [r EXCEPT !.comments =
                        Append(r.comments,
                               [id |-> Len(r.comments) + 1,
                                body |-> buildCommentBody(newImages[loopIdx], ctx)])]

\* the parsed JSON of the response to an accepted mutation: GraphQL answers
\* { "data": { <mutation field>: ... } }
responseDataOf(label, p) ==
  IF label = "create"
  THEN [data |-> [createDiscussion |->
                    [discussion |-> [id |-> p, number |-> p, title |-> termOf(p)]]]]
  ELSE [data |-> [ok |-> TRUE]]

(***************************************************************************)
(* graphqlRequest: the response refreshes rateLimitRemaining (lines 64-67) *)
(***************************************************************************)
counterAfter(h) == IF h # NoValue THEN h ELSE rateLimitRemaining

\* a request goes out and a response with header h comes back
Responded(op, p, isMutation, target, h) ==
  /\ callNo' = 1 - callNo
  /\ lastCall' = [op |-> op, page |-> p, mutation |-> isMutation, target |-> target,
                 attempt |-> attempt]
  /\ rateLimitRemaining' = counterAfter(h)
  /\ everZero' = (everZero \/ counterAfter(h) = 0)
  /\ UNCHANGED <<unitVars, prior, clientVars, config, summary, generated, builds, leftAbort>>

\* a request goes out and the promise rejects (req.on("error"), or JSON.parse throws)
Rejected(op, p, isMutation, target) ==
  /\ callNo' = 1 - callNo
  /\ lastCall' = [op |-> op, page |-> p, mutation |-> isMutation, target |-> target,
                 attempt |-> attempt]
  /\ UNCHANGED <<rateLimitRemaining, everZero, unitVars, prior, clientVars, config, summary,
                 generated, builds, leftAbort>>

\* no request goes out in this step
Quiet ==
  UNCHANGED <<callNo, lastCall, rateLimitRemaining, everZero, unitVars, prior, clientVars,
              config, generated, builds, leftAbort>>

NoRequest == Quiet /\ UNCHANGED summary

(***************************************************************************)
(* The before_generate handler (lines 667-773)                             *)
(***************************************************************************)
\* lines 668-675: what the handler reads from the theme configuration
Configs ==
  { c \in [ {"giscus", "author_pat", "repo", "repo_id", "category_id", "enable"} -> BOOLEAN ] :
      Cardinality({ k \in DOMAIN c : ~c[k] }) <= 1 }

NoConfig == [ k \in {"giscus", "author_pat", "repo", "repo_id", "category_id", "enable"} |-> FALSE ]

\* the checks of lines 669, 677-680 and 682-685 left out
configAlwaysComplete(c) == TRUE

\* lines 669, 677-680, 682-685: none of the three early returns is taken
configComplete(c) ==
  /\ c["giscus"]
  /\ c["author_pat"] /\ c["repo"] /\ c["repo_id"] /\ c["category_id"]
  /\ c["enable"]

\* the reset of lines 688-689 left out
KeepState == UNCHANGED <<rateLimitRemaining, abortAll>>

\* lines 688-689
ResetState ==
  /\ rateLimitRemaining' = NoValue
  /\ abortAll' = FALSE

NoPage == [exists |-> FALSE, masonryReactions |-> NoValue]

\* lines 667-736: the handler up to the batch search. The observations of the
\* build start afresh; existingDiscussions and successCount are locals.
StartBuild ==
  /\ pc = "idle"
  /\ \E c \in Configs :
       /\ config' = c
       /\ IF ~configComplete(c)
          THEN /\ pc' = "done"
               /\ UNCHANGED <<rateLimitRemaining, abortAll>>
          ELSE /\ ResetState
               /\ pc' = IF Len(allPageInfos) = 0 THEN "done" ELSE "search"
  /\ pageIdx' = 1
  /\ successCount' = 0
  /\ existingDiscussions' = [p \in Pages |-> NoDiscussion]
  /\ everZero' = FALSE
  /\ prior' = remote
  /\ summary' = NoValue
  /\ results' = <<>>
  /\ generated' = [p \in Pages |-> NoPage]
  /\ builds' = builds + 1
  /\ leftAbort' = abortAll
  /\ UNCHANGED <<envVars, pageVars, callNo, lastCall, faults, unitVars, clientVars>>

\* the pages of the batch that starts at index i of allPageInfos
batchOf(i) == SubSeq(allPageInfos, i, Min({Len(allPageInfos), i + BATCH_SIZE - 1}))

inBatch(p, i) == \E j \in 1..Len(batchOf(i)) : batchOf(i)[j] = p

SearchAdvance ==
  IF pageIdx + BATCH_SIZE <= Len(allPageInfos)
  THEN pc' = "search" /\ pageIdx' = pageIdx + BATCH_SIZE
  ELSE pc' = "loop" /\ pageIdx' = 1

\* batchFindDiscussions, one batch: the search answers with the discussions that
\* exist; line 160: abortAll ends the loop over the batches
BatchSearchOk ==
  /\ pc = "search"
  /\ IF abortAll
     THEN /\ pc' = "loop" /\ pageIdx' = 1
          /\ NoRequest
          /\ UNCHANGED existingDiscussions
     ELSE /\ \E h \in Headers : Responded("search", 0, FALSE, <<>>, h)
          /\ existingDiscussions' =
               [p \in Pages |-> IF inBatch(p, pageIdx) /\ remote[p].exists
                                THEN searchNode(p) ELSE existingDiscussions[p]]
          /\ SearchAdvance
  /\ UNCHANGED <<envVars, abortAll, successCount, results, pageVars, faults>>

\* batchFindDiscussions, one batch: the response carries errors and no data
\* (lines 197-199, 203-204): no page of the batch is matched
BatchSearchErrors ==
  /\ pc = "search" /\ ~abortAll
  /\ faults > 0
  /\ faults' = faults - 1
  /\ \E h \in Headers : Responded("search", 0, FALSE, <<>>, h)
  /\ SearchAdvance
  /\ UNCHANGED <<envVars, abortAll, existingDiscussions, successCount, results, pageVars>>

\* batchFindDiscussions throws; the handler logs and returns (lines 745-748)
BatchSearchRejected ==
  /\ pc = "search" /\ ~abortAll
  /\ faults > 0
  /\ faults' = faults - 1
  /\ Rejected("search", 0, FALSE, <<>>)
  /\ pc' = "done"
  /\ UNCHANGED <<envVars, abortAll, existingDiscussions, pageIdx, successCount, results,
                 pageVars>>

\* the loop of lines 752-768 that does not test abortAll
PageLoopNoBreak ==
  /\ pc = "loop"
  /\ IF pageIdx > Len(allPageInfos)
     THEN /\ pc' = "done"
          /\ summary' = successCount
          /\ UNCHANGED <<pageVars, pageIdx>>
     ELSE /\ pc' = "inpage"
          /\ SetFrame([EmptyFrame EXCEPT !.ppc = "begin",
                                         !.discussion = existingDiscussions[curPage]])
          /\ UNCHANGED <<pageIdx, summary>>
  /\ Quiet
  /\ UNCHANGED <<envVars, abortAll, existingDiscussions, successCount, results, faults>>

\* lines 752-772: the loop over allPageInfos, and the summary after it
PageLoop ==
  /\ pc = "loop"
  /\ IF pageIdx > Len(allPageInfos) \/ abortAll
     THEN /\ pc' = "done"
          /\ summary' = successCount
          /\ UNCHANGED <<pageVars, pageIdx>>
     ELSE /\ pc' = "inpage"
          /\ SetFrame([EmptyFrame EXCEPT !.ppc = "begin",
                                         !.discussion = existingDiscussions[curPage]])
          /\ UNCHANGED <<pageIdx, summary>>
  /\ Quiet
  /\ UNCHANGED <<envVars, abortAll, existingDiscussions, successCount, results, faults>>

\* hexo._masonryReactions is assigned nowhere in the repository: line 467 of
\* the generator falls back to the empty object
allReactions == [p \in {} |-> NoValue]

\* line 479
reactionsInfo(p) == IF p \in DOMAIN allReactions THEN allReactions[p] ELSE NoValue

\* lines 491-498
masonryReactionsOf(p) ==
  IF reactionsInfo(p) # NoValue
  THEN [discussionTerm |-> termOf(p),
        discussionNumber |-> reactionsInfo(p).discussionNumber,
        imageReactions |-> reactionsInfo(p).imageReactions]
  ELSE NoValue

\* the masonry_pages generator (lines 465-504) runs when the handler has returned
GeneratePages ==
  /\ pc = "done"
  /\ pc' = "generated"
  /\ generated' = [p \in Pages |->
                     IF Len(manifest[p]) > 0
                     THEN [exists |-> TRUE, masonryReactions |-> masonryReactionsOf(p)]
                     ELSE NoPage]
  /\ UNCHANGED <<envVars, rateLimitRemaining, abortAll, existingDiscussions, pageIdx,
                 successCount, pageVars, obsVars, config, summary, results, builds, leftAbort,
                 unitVars, clientVars>>

\* hexo generates again in the same process (hexo server, a watched source)
Rebuild ==
  /\ pc = "generated"
  /\ builds < MaxBuilds
  /\ pc' = "idle"
  /\ UNCHANGED <<envVars, rateLimitRemaining, abortAll, existingDiscussions, pageIdx,
                 successCount, pageVars, obsVars, hexoVars, unitVars, clientVars>>

(***************************************************************************)
(* processPageReactions (lines 550-663), one action per stretch between    *)
(* two awaits                                                              *)
(***************************************************************************)
InPage(label) == pc = "inpage" /\ ppc = label

Internal == NoRequest /\ UNCHANGED <<envVars, abortAll, existingDiscussions, faults>>

\* lines 552-573
PBegin ==
  /\ InPage("begin")
  /\ IF abortAll THEN Return(FALSE)
     ELSE IF discussion = NoDiscussion THEN Resume([Frame EXCEPT !.ppc = "create"])
     ELSE Resume([Frame EXCEPT !.ppc = "body"])
  /\ Internal

\* lines 575-587
PBody ==
  /\ InPage("body")
  /\ IF "body" \in DOMAIN discussion /\ ~hasNewBody(discussion)
     THEN Resume([Frame EXCEPT !.ppc = "updBody", !.attempt = 0])
     ELSE Resume(EnterFetch(Frame))
  /\ Internal

moreToFetch == pageInfo.hasNextPage /\ pageInfo.endCursor # 0

\* lines 589-595: fetchRemainingComments answers with the next page
PFetchMore ==
  /\ InPage("fetch") /\ moreToFetch
  /\ \E h \in Headers : Responded("comments", curPage, FALSE, <<>>, h)
  /\ LET moreComments == commentsPage(remote[curPage].comments, pageInfo.endCursor)
     IN Resume([Frame EXCEPT !.allComments = allComments \o moreComments.nodes,
                             !.pageInfo = moreComments.pageInfo])
  /\ UNCHANGED <<envVars, abortAll, existingDiscussions, faults>>

\* line 592: the response holds no comments object (errors, data: null)
PFetchNoData ==
  /\ InPage("fetch") /\ moreToFetch
  /\ faults > 0
  /\ faults' = faults - 1
  /\ \E h \in Headers : Responded("comments", curPage, FALSE, <<>>, h)
  /\ Resume([Frame EXCEPT !.ppc = "classify"])
  /\ UNCHANGED <<envVars, abortAll, existingDiscussions>>

\* fetchRemainingComments throws
PFetchRejected ==
  /\ InPage("fetch") /\ moreToFetch
  /\ faults > 0
  /\ faults' = faults - 1
  /\ Rejected("comments", curPage, FALSE, <<>>)
  /\ Throw(networkError)
  /\ UNCHANGED <<envVars, abortAll, existingDiscussions>>

PFetchDone ==
  /\ InPage("fetch") /\ ~moreToFetch
  /\ Resume([Frame EXCEPT !.ppc = "classify"])
  /\ Internal

\* processPageReactions unlocking whatever the classification found
alwaysNeedsMutations(toAdd, toUpdate) == TRUE

\* processPageReactions without the unlock of lines 627-631
neverUnlock(d) == FALSE

\* line 628
mustUnlock(d) == d.locked

\* line 617
needsMutationsOf(toAdd, toUpdate) == Len(toAdd) > 0 \/ Len(toUpdate) > 0

\* lines 597-631
PClassify ==
  /\ InPage("classify")
  /\ LET images == manifest[curPage]
         toUpdate == commentsToUpdateFrom(allComments, images, 1)
         toAdd == newImagesOf(images, existingImageIdsOf(allComments))
         needsMutations == needsMutationsOf(toAdd, toUpdate)
         f == [Frame EXCEPT !.commentsToUpdate = toUpdate, !.newImages = toAdd,
                            !.loopIdx = 1, !.attempt = 0]
     IN IF ~needsMutations
        THEN IF ~discussion.locked THEN Resume([f EXCEPT !.ppc = "lockIdle"])
             ELSE Return(TRUE)
        ELSE IF mustUnlock(discussion) THEN Resume([f EXCEPT !.ppc = "unlock"])
             ELSE Resume([f EXCEPT !.ppc = "update"])
  /\ Internal

\* lines 634-639: the head of the loop over commentsToUpdate
PUpdateLoop ==
  /\ InPage("update")
  /\ IF loopIdx > Len(commentsToUpdate) \/ abortAll
     THEN Resume([Frame EXCEPT !.ppc = "add", !.loopIdx = 1])
     ELSE Resume([Frame EXCEPT !.ppc = "updComment", !.attempt = 0])
  /\ Internal

\* lines 642-652: the head of the loop over newImages, then the closing lock
PAddLoop ==
  /\ InPage("add")
  /\ IF loopIdx > Len(newImages) \/ abortAll
     THEN IF ~abortAll THEN Resume([Frame EXCEPT !.ppc = "lockEnd", !.attempt = 0])
          ELSE Return(TRUE)
     ELSE Resume([Frame EXCEPT !.ppc = "addComment", !.attempt = 0])
  /\ Internal

(***************************************************************************)
(* executeMutation (lines 87-146), one action per attempt                  *)
(***************************************************************************)
InMutation == pc = "inpage" /\ ppc \in MutationLabels

\* executeMutation without the check of lines 94-98
limitNeverReached == FALSE

\* lines 89-98
limitReached == rateLimitRemaining # NoValue /\ rateLimitRemaining <= 0

mayAttempt == ~abortAll /\ ~limitReached

\* the label the caller passes to executeMutation (lines 248-361, 638)
labelFor(op, p, target) ==
  CASE op = "createDiscussion" -> <<"create discussion: ">> \o pagePathOf(p)
    [] op = "updateDiscussion" -> <<"update discussion body">>
    [] op = "lockLockable" -> <<"lock discussion">>
    [] op = "unlockLockable" -> <<"unlock discussion">>
    [] op = "updateDiscussionComment" -> <<"update format: ">> \o target
    [] op = "addDiscussionComment" -> <<"add comment: ">> \o target

\* the errors array of a response, one message each
errorsOf(secondary) ==
  IF secondary
  THEN << [message |-> <<"You have exceeded a ", "secondary rate limit", ".">>] >>
  ELSE << [message |-> <<"Resource not accessible by personal access token">>] >>

\* executeMutation taking every errors array for a secondary rate limit
anyErrorsRetried(errors) == TRUE

\* lines 124-129
isSecondaryRateLimit(errors) ==
  \E i \in 1..Len(errors) :
    \/ Includes(errors[i].message, "submitted too quickly")
    \/ Includes(errors[i].message, "abuse")
    \/ Includes(errors[i].message, "secondary rate limit")

\* JSON.stringify(responseData.errors), the punctuation left out
stringifyErrors(errors) ==
  IF errors = <<>> THEN <<>> ELSE <<"[">> \o errors[1].message \o <<"]">>

\* the messages of the errors executeMutation throws
AbortedPrimary == <<"Aborted: primary rate limit reached">>
AbortedRemaining == <<"Aborted: X-RateLimit-Remaining is 0">>
failedMessage(label, errors) == label \o <<" failed: ">> \o stringifyErrors(errors)

\* the retry-after header of a response, with the seconds it stands for;
\* GitHub sends a whole number of seconds
RetryAfters ==
  { [text |-> <<>>, seconds |-> NoValue],
    [text |-> <<"0">>, seconds |-> 0],
    [text |-> <<"6", "0">>, seconds |-> 60] }

Digits == <<"0", "1", "2", "3", "4", "5", "6", "7", "8", "9">>
isDigit(t) == \E d \in 1..10 : Digits[d] = t
digitOf(t) == (CHOOSE d \in 1..10 : Digits[d] = t) - 1

RECURSIVE digitsValue(_, _, _)
digitsValue(str, i, acc) ==
  IF i > Len(str) \/ ~isDigit(str[i]) THEN acc
  ELSE digitsValue(str, i + 1, acc * 10 + digitOf(str[i]))

\* parseInt(str, 10) of an unsigned string: leading white space is skipped, the
\* leading digits are read; NaN (here NoValue) without a leading digit
parseInt10(str) ==
  LET t == TrimLeft(str)
  IN IF t = <<>> \/ ~isDigit(t[1]) THEN NoValue ELSE digitsValue(t, 1, 0)

\* the same wait on every attempt
fixedWait(n) == 5

\* line 134: (attempt + 1) * 5
progressiveWait(n) == (n + 1) * 5

\* lines 133-134
waitSecondsOf(retryAfter, n) ==
  IF retryAfter # <<>> THEN parseInt10(retryAfter) ELSE progressiveWait(n)

\* executeMutation retries whatever the attempt
retryAlways == TRUE

\* lines 108 and 130: attempt < 2
retryAllowed == attempt < 2

\* the frame once a request of the mutation at this position went out
Sent ==
  [Frame EXCEPT !.created = created \/ opOf(ppc) = "addDiscussionComment",
                !.waited = NoBackoff]

\* what the caller does with the value executeMutation returned
afterMutation(label, responseData) ==
  CASE label = "create" ->
         LET d == Get(Get(responseData, "createDiscussion"), "discussion")
         IN IF d = <<>> THEN Return(FALSE)
            ELSE Resume([Sent EXCEPT
                   !.ppc = "body",
                   !.discussion =
                      [id |-> d.id, number |-> d.number, title |-> d.title, locked |-> FALSE,
                       comments |-> [totalCount |-> 0, pageInfo |-> NoPageInfo,
                                     nodes |-> <<>>]]])
    [] label = "updBody" -> Resume(EnterFetch(Sent))
    [] label = "lockIdle" -> Return(TRUE)
    [] label = "unlock" -> Resume([Sent EXCEPT !.ppc = "update", !.loopIdx = 1])
    [] label = "updComment" -> Resume([Sent EXCEPT !.ppc = "update", !.loopIdx = loopIdx + 1])
    [] label = "addComment" -> Resume([Sent EXCEPT !.ppc = "add", !.loopIdx = loopIdx + 1])
    [] label = "lockEnd" -> Return(TRUE)

\* lines 89-98: the call fails fast, no request is sent
ExecFailFast ==
  /\ InMutation /\ ~mayAttempt
  /\ abortAll' = TRUE
  /\ Throw(IF abortAll THEN AbortedPrimary ELSE AbortedRemaining)
  /\ NoRequest
  /\ UNCHANGED <<envVars, existingDiscussions, faults>>

\* lines 105-112: the request is rejected
ExecRejected ==
  /\ InMutation /\ mayAttempt
  /\ faults > 0
  /\ faults' = faults - 1
  /\ Rejected(opOf(ppc), curPage, TRUE, targetOf(ppc))
  /\ IF retryAllowed THEN Resume([Sent EXCEPT !.attempt = attempt + 1])
     ELSE Throw(networkError)
  /\ UNCHANGED <<envVars, abortAll, existingDiscussions>>

\* lines 114-142: the response carries errors; secondary tells a secondary rate limit
ExecErrors(secondary) ==
  /\ InMutation /\ mayAttempt
  /\ faults > 0
  /\ faults' = faults - 1
  /\ \E h \in Headers :
       /\ Responded(opOf(ppc), curPage, TRUE, targetOf(ppc), h)
       /\ IF counterAfter(h) # NoValue /\ counterAfter(h) <= 0
          THEN abortAll' = TRUE /\ Throw(AbortedRemaining)
          ELSE /\ UNCHANGED abortAll
               /\ IF isSecondaryRateLimit(errorsOf(secondary)) /\ retryAllowed
                  THEN \E ra \in RetryAfters :
                         Resume([Sent EXCEPT
                           !.attempt = attempt + 1,
                           !.waited = [attempt |-> attempt + 1, retryAfter |-> ra,
                                       errors |-> errorsOf(secondary),
                                       seconds |-> waitSecondsOf(ra.text, attempt)]])
                  ELSE Throw(failedMessage(labelFor(opOf(ppc), curPage, targetOf(ppc)),
                                           errorsOf(secondary)))
  /\ UNCHANGED <<envVars, existingDiscussions>>

\* lines 114-144: GitHub applies the mutation and answers without errors
ExecAccepted ==
  /\ InMutation /\ mayAttempt
  /\ remote' = [remote EXCEPT ![curPage] = applyMutation(ppc, curPage)]
  /\ \E h \in Headers :
       /\ Responded(opOf(ppc), curPage, TRUE, targetOf(ppc), h)
       /\ IF counterAfter(h) # NoValue /\ counterAfter(h) <= 0
          THEN abortAll' = TRUE /\ Throw(AbortedRemaining)
          ELSE /\ UNCHANGED abortAll
               /\ afterMutation(ppc, responseDataOf(ppc, curPage))
  /\ UNCHANGED <<manifest, existingDiscussions, faults>>

ExecuteMutation ==
  \/ ExecFailFast
  \/ ExecRejected
  \/ \E secondary \in BOOLEAN : ExecErrors(secondary)
  \/ ExecAccepted

(***************************************************************************)
(* The Reaction Client (source/js/plugins/masonry-reactions.source.js)     *)
(***************************************************************************)
NumClientPages == 2   \* gallery pages the visitor moves between
NumImages == 3        \* images over all the gallery pages
ClientPageSize == 1   \* comments one request to giscus.app returns (first: 100)
MaxOthers == 0        \* hearts other visitors have given to one comment
MaxHearts == 2        \* largest heart count a click is made on
MaxNow == 2            \* the clock of the browser stops after so many CACHE_TTL
MaxInFlight == 2      \* asynchronous operations in flight at one time

\* line 26: five minutes, the unit of now
CACHE_TTL == 1

ClientPages == 1..NumClientPages
ImageKeys == 1..NumImages

\* the gallery page that shows image i; the comment of image i has id i
pageOfImage(i) == ((i - 1) % NumClientPages) + 1
imagesOf(p) == { i \in present : pageOfImage(i) = p }

NoEntry == [commentId |-> 0, heartCount |-> 0, viewerHasReacted |-> FALSE]
NoButton == [exists |-> FALSE, count |-> 0, reacted |-> FALSE, loading |-> FALSE]
\* a cache entry is kept while it is younger than CACHE_TTL; NoCache is also
\* what getCache answers for an entry that is older
NoCache ==
  [exists |-> FALSE, timestamp |-> 0, imageReactions |-> [i \in ImageKeys |-> NoEntry]]
NoToggle == [img |-> 0, c |-> 0, r |-> FALSE, success |-> FALSE]
NoInit == [page |-> 0, token |-> 0]

\* an operation in flight; a click handler holds the button it was called on
\* (btn: the button is still in the document), the ReactionState object it read
\* (attached: imageReactions still holds that object) and the values it read
Task(kind, page) ==
  [kind |-> kind, page |-> page, img |-> 0, c |-> 0, r |-> FALSE,
   attached |-> FALSE, btn |-> FALSE, comments |-> <<>>]

\* the HEART count GitHub reports for the comment of image i
heartCountOf(i) == server[i].others + (IF server[i].viewer THEN 1 ELSE 0)

\* lines 344-354
updateHeartButton(btns, imageId, heartCount, viewerHasReacted) ==
  IF ~btns[imageId].exists THEN btns
  ELSE [btns EXCEPT ![imageId].count = heartCount, ![imageId].reacted = viewerHasReacted]

\* the buttons after updateHeartButton ran for every entry of reactions
updateAllButtons(btns, reactions) ==
  [i \in ImageKeys |->
     IF reactions[i] # NoEntry
     THEN updateHeartButton(btns, i, reactions[i].heartCount, reactions[i].viewerHasReacted)[i]
     ELSE btns[i]]

\* lines 292-323: a button for every image of the page that has none
initializeHeartButtons(btns, p) ==
  [i \in ImageKeys |->
     IF i \in imagesOf(p) /\ ~btns[i].exists
     THEN [exists |-> TRUE, count |-> 0, reacted |-> FALSE, loading |-> FALSE]
     ELSE btns[i]]

\* imageReactions now holds new objects: a handler that captured one of the
\* old objects writes to an object the state no longer reaches
detachAll(ts) == { [t EXCEPT !.attached = FALSE] : t \in ts }

\* the comments of page p's discussion, one per image, in the order of creation
commentsOfPage(p) == SelectSeq([i \in 1..NumImages |-> i], LAMBDA i : i \in imagesOf(p))

\* lines 103-127: the comments giscus.app returns for the request after cursor n
giscusComments(p, n) ==
  LET all == commentsOfPage(p)
      last == IF n + ClientPageSize < Len(all) THEN n + ClientPageSize ELSE Len(all)
  IN [k \in 1..(last - n) |-> [id |-> all[n + k], count |-> heartCountOf(all[n + k])]]

\* lines 359-376 on the comments fetchAllComments returned
appliedReactions(comments) ==
  [i \in ImageKeys |->
     IF \E k \in 1..Len(comments) : comments[k].id = i
     THEN LET k == CHOOSE k \in 1..Len(comments) :
                     /\ comments[k].id = i
                     /\ \A l \in 1..Len(comments) : comments[l].id = i => l <= k
          IN [commentId |-> i, heartCount |-> comments[k].count, viewerHasReacted |-> FALSE]
     ELSE NoEntry]

\* lines 503-506
cacheEntryOf(reactions) == [exists |-> TRUE, timestamp |-> now, imageReactions |-> reactions]

OnSite == location = "site"

ClientIdle == UNCHANGED <<unitVars, recVars, present, now>>

\* getCache answering with whatever sessionStorage holds
getCacheStale(entry) == entry

\* lines 239-254: an entry older than CACHE_TTL is removed and null is answered
getCache(entry) ==
  IF entry.exists /\ now - entry.timestamp > CACHE_TTL THEN NoCache ELSE entry

\* lines 459-470 of init, after the token is known: the cache, then the live fetch
AfterToken(t, page, token, btns) ==
  LET cached == getCache(cache[page])
  IN /\ userToken' = token
     /\ isAuthenticated' = (token # 0)
     /\ cache' = [cache EXCEPT ![page] = cached]
     /\ lastInit' = [page |-> page, token |-> token]
     /\ IF cached.exists
        THEN /\ imageReactions' = cached.imageReactions
             /\ buttons' = updateAllButtons(btns, cached.imageReactions)
             /\ tasks' = detachAll(tasks \ {t})
                           \cup (IF token # 0 THEN {Task("live", page)} ELSE {})
        ELSE /\ imageReactions' = imageReactions
             /\ buttons' = btns
             /\ tasks' = (tasks \ {t}) \cup {Task("live", page)}

\* lines 438-458: init runs up to the token exchange; without a stored session
\* getGiscusToken answers null without a request and init goes on at once
InitStart ==
  /\ OnSite
  /\ \E t \in tasks :
       /\ t.kind = "init"
       /\ IF isInitialized /\ currentPagePath = domPage
          THEN /\ tasks' = tasks \ {t}
               /\ lastInit' = NoInit
               /\ UNCHANGED <<buttons, currentPagePath, imageReactions, userToken,
                              isAuthenticated, isInitialized, cache>>
          ELSE /\ currentPagePath' = domPage
               /\ isInitialized' = TRUE
               /\ IF session
                  THEN /\ buttons' = initializeHeartButtons(buttons, domPage)
                       /\ tasks' = (tasks \ {t}) \cup {Task("token", domPage)}
                       /\ lastInit' = NoInit
                       /\ UNCHANGED <<imageReactions, userToken, isAuthenticated, cache>>
                  ELSE AfterToken(t, domPage, 0, initializeHeartButtons(buttons, domPage))
  /\ UNCHANGED <<session, server, domPage, location>>
  /\ lastToggle' = NoToggle
  /\ ClientIdle

\* lines 68-81, 452-470: the token exchange answers, with a token or without
InitToken ==
  /\ OnSite
  /\ \E t \in tasks :
       /\ t.kind = "token"
       /\ \E token \in {0, 1} : AfterToken(t, t.page, token, buttons)
  /\ UNCHANGED <<session, server, domPage, location, currentPagePath, isInitialized>>
  /\ lastToggle' = NoToggle
  /\ ClientIdle

\* lines 134-149, 482-486, 502-506: one request of fetchAllComments answers; ok
\* is false when fetchFromGiscusAPI returned null. A null first page ends
\* fetchAndApplyLive; a null continuation page ends the loop of lines 141-147
\* and what was merged so far is returned, applied and cached.
LiveFetched ==
  /\ OnSite
  /\ \E t \in tasks :
       /\ t.kind = "live"
       /\ \E ok \in BOOLEAN :
            LET merged == IF ok THEN t.comments \o giscusComments(t.page, Len(t.comments))
                          ELSE t.comments
                hasNextPage == Len(merged) < Len(commentsOfPage(t.page))
                reactions == appliedReactions(merged)
            IN IF ~ok /\ Len(t.comments) = 0
               THEN /\ tasks' = tasks \ {t}
                    /\ UNCHANGED <<imageReactions, buttons, cache>>
               ELSE IF ok /\ hasNextPage
               THEN /\ tasks' = (tasks \ {t}) \cup {[t EXCEPT !.comments = merged]}
                    /\ UNCHANGED <<imageReactions, buttons, cache>>
               ELSE /\ imageReactions' = reactions
                    /\ buttons' = updateAllButtons(buttons, reactions)
                    /\ IF isAuthenticated /\ userToken # 0
                       THEN /\ tasks' = detachAll(tasks \ {t})
                                          \cup {[Task("check", t.page) EXCEPT
                                                   !.comments = merged]}
                            /\ UNCHANGED cache
                       ELSE /\ tasks' = detachAll(tasks \ {t})
                            /\ cache' = [cache EXCEPT ![t.page] = cacheEntryOf(reactions)]
  /\ UNCHANGED <<session, server, domPage, location, currentPagePath, userToken,
                 isAuthenticated, isInitialized>>
  /\ lastToggle' = NoToggle
  /\ lastInit' = NoInit
  /\ ClientIdle

\* lines 493-506: checkViewerReactions answers for the comment ids it was
\* called with; ok is false when the request failed and the result is empty
LiveChecked ==
  /\ OnSite
  /\ \E t \in tasks :
       /\ t.kind = "check"
       /\ \E ok \in BOOLEAN :
            LET reacted(i) == /\ ok /\ imageReactions[i] # NoEntry
                              /\ \E k \in 1..Len(t.comments) :
                                   t.comments[k].id = imageReactions[i].commentId
                              /\ server[imageReactions[i].commentId].viewer
                after == [i \in ImageKeys |->
                            IF reacted(i)
                            THEN [imageReactions[i] EXCEPT !.viewerHasReacted = TRUE]
                            ELSE imageReactions[i]]
            IN /\ imageReactions' = after
               /\ buttons' = [i \in ImageKeys |->
                                IF reacted(i)
                                THEN updateHeartButton(buttons, i, after[i].heartCount, TRUE)[i]
                                ELSE buttons[i]]
               /\ cache' = [cache EXCEPT ![t.page] = cacheEntryOf(after)]
               /\ tasks' = tasks \ {t}
  /\ UNCHANGED <<session, server, domPage, location, currentPagePath, userToken,
                 isAuthenticated, isInitialized>>
  /\ lastToggle' = NoToggle
  /\ lastInit' = NoInit
  /\ ClientIdle

\* handleHeartClick without the test of lines 395-396
clickNeverIgnored(i) == FALSE

\* lines 395-396: the button carries is-loading, the click is ignored
clickIgnored(i) == buttons[i].loading

\* lines 391-401: a click of a visitor who is not authenticated
ClickAnonymous ==
  /\ OnSite
  /\ \E i \in ImageKeys :
       /\ buttons[i].exists /\ ~clickIgnored(i)
       /\ ~isAuthenticated \/ userToken = 0
  /\ location' = "oauth"
  /\ UNCHANGED <<session, server, cache, buttons, domPage, tasks, currentPagePath,
                 imageReactions, userToken, isAuthenticated, isInitialized>>
  /\ lastToggle' = NoToggle
  /\ lastInit' = NoInit
  /\ ClientIdle

\* the decrement of line 410 without Math.max
newCountUnclamped(currentlyReacted, currentCount) ==
  IF currentlyReacted THEN currentCount - 1 ELSE currentCount + 1

\* lines 408-411: the optimistic count of a click, newCount
newCountOf(currentlyReacted, currentCount) ==
  IF currentlyReacted
  THEN (IF currentCount - 1 > 0 THEN currentCount - 1 ELSE 0)
  ELSE currentCount + 1

\* lines 391-418: a click of an authenticated visitor, up to the await
ClickToggle ==
  /\ OnSite
  /\ Cardinality(tasks) < MaxInFlight
  /\ \E i \in ImageKeys :
       /\ buttons[i].exists /\ ~clickIgnored(i)
       /\ isAuthenticated /\ userToken # 0
       /\ imageReactions[i] # NoEntry
       /\ imageReactions[i].heartCount <= MaxHearts
       /\ LET currentlyReacted == imageReactions[i].viewerHasReacted
              currentCount == imageReactions[i].heartCount
              newCount == newCountOf(currentlyReacted, currentCount)
              newReacted == ~currentlyReacted
          IN /\ imageReactions' = [imageReactions EXCEPT ![i].heartCount = newCount,
                                                         ![i].viewerHasReacted = newReacted]
             /\ buttons' = [updateHeartButton(buttons, i, newCount, newReacted)
                              EXCEPT ![i].loading = TRUE]
             /\ tasks' = tasks \cup
                           {[Task("click", 0) EXCEPT
                               !.img = i, !.c = currentCount, !.r = currentlyReacted,
                               !.attached = TRUE, !.btn = TRUE]}
  /\ UNCHANGED <<session, server, cache, domPage, location, currentPagePath, userToken,
                 isAuthenticated, isInitialized>>
  /\ lastToggle' = NoToggle
  /\ lastInit' = NoInit
  /\ ClientIdle

\* lines 198-221, 418-431: the toggle request ends. "applied": GitHub changed
\* the reaction; "errors": a 2xx response with a GraphQL errors payload;
\* "failed": a network error or a status that is not 2xx
ToggleDone ==
  /\ OnSite
  /\ \E t \in tasks :
       /\ t.kind = "click"
       /\ \E outcome \in {"applied", "errors", "failed"} :
            LET success == outcome # "failed"
                idle == IF t.btn THEN [buttons EXCEPT ![t.img].loading = FALSE] ELSE buttons
            IN /\ server' = IF outcome = "applied"
                            THEN [server EXCEPT ![t.img].viewer = ~t.r]
                            ELSE server
               /\ IF success
                  THEN /\ cache' = [cache EXCEPT ![domPage] = NoCache]
                       /\ buttons' = idle
                       /\ UNCHANGED imageReactions
                  ELSE /\ imageReactions' =
                            IF t.attached
                            THEN [imageReactions EXCEPT ![t.img].heartCount = t.c,
                                                        ![t.img].viewerHasReacted = t.r]
                            ELSE imageReactions
                       /\ buttons' = updateHeartButton(idle, t.img, t.c, t.r)
                       /\ UNCHANGED cache
               /\ lastToggle' = [img |-> t.img, c |-> t.c, r |-> t.r, success |-> success]
               /\ tasks' = tasks \ {t}
  /\ lastInit' = NoInit
  /\ UNCHANGED <<session, domPage, location, currentPagePath, userToken, isAuthenticated,
                 isInitialized>>
  /\ ClientIdle

\* lines 580-588 and 601-609: what both sign-out handlers do
signOutHandled ==
  /\ userToken' = 0
  /\ isAuthenticated' = FALSE
  /\ imageReactions' = [i \in ImageKeys |->
                          IF imageReactions[i] # NoEntry
                          THEN [imageReactions[i] EXCEPT !.viewerHasReacted = FALSE]
                          ELSE NoEntry]
  /\ buttons' = updateAllButtons(buttons, imageReactions')
  /\ cache' = [cache EXCEPT ![domPage] = NoCache]

\* lines 561-590: a storage event, the giscus-session key was removed
SignOutStorage ==
  /\ OnSite /\ session
  /\ session' = FALSE
  /\ signOutHandled
  /\ UNCHANGED <<server, domPage, location, tasks, currentPagePath, isInitialized>>
  /\ lastToggle' = NoToggle
  /\ lastInit' = NoInit
  /\ ClientIdle

\* lines 594-611: the giscus frame posts signOut; giscus-client.source.js
\* removes the stored session on the same message
SignOutMessage ==
  /\ OnSite /\ session
  /\ session' = FALSE
  /\ signOutHandled
  /\ UNCHANGED <<server, domPage, location, tasks, currentPagePath, isInitialized>>
  /\ lastToggle' = NoToggle
  /\ lastInit' = NoInit
  /\ ClientIdle

\* lines 515-530: swup shows gallery page p; the buttons of the page before
\* leave the document; cleanup runs and init is scheduled
PageView ==
  /\ OnSite
  /\ Cardinality(tasks) < MaxInFlight
  /\ \E p \in ClientPages :
       /\ imagesOf(p) # {}
       /\ domPage' = p
       /\ buttons' = [i \in ImageKeys |-> NoButton]
       /\ isInitialized' = FALSE
       /\ currentPagePath' = 0
       /\ imageReactions' = [i \in ImageKeys |-> NoEntry]
       /\ tasks' = { [t EXCEPT !.attached = FALSE, !.btn = FALSE] : t \in tasks }
                     \cup {Task("init", 0)}
  /\ UNCHANGED <<session, server, cache, location, userToken, isAuthenticated>>
  /\ lastToggle' = NoToggle
  /\ lastInit' = NoInit
  /\ ClientIdle

\* lines 20-33, 612-628: the document is loaded anew after the visit to the
\* OAuth endpoint; sessionStorage is kept, the module state starts over
PageLoad ==
  /\ location = "oauth"
  /\ location' = "site"
  /\ \E loggedIn \in BOOLEAN : session' = (session \/ loggedIn)
  /\ buttons' = [i \in ImageKeys |-> NoButton]
  /\ tasks' = {Task("init", 0)}
  /\ currentPagePath' = 0
  /\ imageReactions' = [i \in ImageKeys |-> NoEntry]
  /\ userToken' = 0
  /\ isAuthenticated' = FALSE
  /\ isInitialized' = FALSE
  /\ UNCHANGED <<server, cache, domPage>>
  /\ lastToggle' = NoToggle
  /\ lastInit' = NoInit
  /\ ClientIdle

\* time passes: Date.now() grows by CACHE_TTL
Tick ==
  /\ OnSite
  /\ now < MaxNow
  /\ now' = now + 1
  /\ lastToggle' = NoToggle
  /\ lastInit' = NoInit
  /\ UNCHANGED <<session, server, cache, buttons, domPage, location, tasks, currentPagePath,
                 imageReactions, userToken, isAuthenticated, isInitialized>>
  /\ UNCHANGED <<unitVars, recVars, present>>

ClientOff ==
  /\ present = {}
  /\ session = FALSE
  /\ server = [i \in ImageKeys |-> [others |-> 0, viewer |-> FALSE]]
  /\ cache = [p \in ClientPages |-> NoCache]
  /\ buttons = [i \in ImageKeys |-> NoButton]
  /\ domPage = 1
  /\ location = "off"
  /\ tasks = {}
  /\ currentPagePath = 0
  /\ imageReactions = [i \in ImageKeys |-> NoEntry]
  /\ userToken = 0
  /\ isAuthenticated = FALSE
  /\ isInitialized = FALSE
  /\ lastToggle = NoToggle
  /\ now = 0
  /\ lastInit = NoInit

(***************************************************************************)
(* Spec: one build of the reconciler                                       *)
(***************************************************************************)
E_Sunset == EntryOf(IdSunset, <<"Sunset">>, <<>>, <<>>)
E_SunsetRenamed == EntryOf(IdSunset, <<"Dawn">>, <<>>, <<>>)
E_Beach == EntryOf(IdBeach, <<>>, <<"Golden", " ", "hour">>, <<"Canon">>)
E_Photo == EntryOf(IdPhoto, <<>>, <<>>, <<>>)
E_Logo == EntryOf(IdLogo, <<"Logo">>, <<>>, <<>>)

\* the manifests of page 1: the entries it lists, in this order
Manifests1 ==
  { s \o b :
      s \in {<<>>, <<E_Sunset>>, <<E_SunsetRenamed>>},
      b \in {<<>>, <<E_Beach>>} }

ctxOfBodies(p) == ContextOf(pageTitleOf(p), "0", avifEnabled)

\* the comment bodies page 1's discussion may hold before the build
Bodies1 ==
  { buildCommentBody(E_Sunset, ctxOfBodies(1)),
    buildCommentBody(E_Beach, ctxOfBodies(1)),
    oldCommentBody(IdSunset, <<"Sunset">>),
    manualCommentBody }

RECURSIVE SeqsUpTo(_, _)
SeqsUpTo(S, n) ==
  IF n = 0 THEN {<<>>}
  ELSE LET shorter == SeqsUpTo(S, n - 1)
       IN shorter \cup { Append(q, x) : q \in shorter, x \in S }

withIds(bodies) == [i \in 1..Len(bodies) |-> [id |-> i, body |-> bodies[i]]]

\* the discussions page p may have before the build, given its manifest m
Remotes(p, m, pool, maxLen) ==
  {NoRemote} \cup
  { [exists |-> TRUE, body |-> b, locked |-> l, comments |-> withIds(cs), extra |-> 0] :
      b \in { buildDiscussionBody(ContextOf(pageTitleOf(p), ToString(Len(m)), avifEnabled)),
              oldDiscussionBody(p) },
      l \in BOOLEAN,
      cs \in SeqsUpTo(pool, maxLen) }

\* the later pages list one image; their discussion exists, unlocked, without comments
ManifestOther == <<E_Logo>>
RemoteOther(p) ==
  [exists |-> TRUE,
   body |-> buildDiscussionBody(ContextOf(pageTitleOf(p), "1", avifEnabled)),
   locked |-> FALSE,
   comments |-> <<>>,
   extra |-> 0]

NoRelayRequest == [method |-> "", origin |-> <<>>, path |-> <<>>, authorization |-> FALSE]

NoRelayResponse == [status |-> 0, allowOrigin |-> <<>>, allowCredentials |-> FALSE, body |-> ""]

RelayOff ==
  /\ request = NoRelayRequest
  /\ response = NoRelayResponse
  /\ fetched = <<>>
  /\ rpc = "off"

MatchOff ==
  /\ imageIds = <<>>
  /\ containers = <<>>
  /\ mpc = "off"

BodyOnlyOff ==
  /\ imageData = <<>>
  /\ context = <<>>
  /\ commentBody = <<>>
  /\ parsedId = NoId
  /\ bpc = "off"

BodyOff == BodyOnlyOff /\ RelayOff /\ MatchOff

InitBuildState ==
  /\ rateLimitRemaining = NoValue
  /\ abortAll = FALSE
  /\ existingDiscussions = [p \in Pages |-> NoDiscussion]
  /\ pageIdx = 1
  /\ successCount = 0
  /\ ppc = "none"
  /\ discussion = NoDiscussion
  /\ allComments = <<>>
  /\ pageInfo = NoPageInfo
  /\ commentsToUpdate = <<>>
  /\ newImages = <<>>
  /\ loopIdx = 0
  /\ attempt = 0
  /\ created = FALSE
  /\ waited = NoBackoff
  /\ thrown = <<>>
  /\ callNo = 0
  /\ lastCall = NoCall
  /\ everZero = FALSE
  /\ config = NoConfig
  /\ summary = NoValue
  /\ generated = [p \in Pages |-> NoPage]
  /\ results = <<>>
  /\ builds = 0
  /\ leftAbort = FALSE

RecOff ==
  /\ manifest = [p \in Pages |-> <<>>]
  /\ remote = [p \in Pages |-> NoRemote]
  /\ prior = remote
  /\ pc = "off"
  /\ faults = MaxFaults
  /\ InitBuildState

Init ==
  /\ BodyOff
  /\ ClientOff
  /\ \E m1 \in Manifests1 :
       /\ manifest = [p \in Pages |-> IF p = 1 THEN m1 ELSE ManifestOther]
       /\ \E r1 \in Remotes(1, m1, Bodies1, MaxComments) :
            remote = [p \in Pages |-> IF p = 1 THEN r1 ELSE RemoteOther(p)]
  /\ prior = remote
  /\ pc = "idle"
  /\ faults = MaxFaults
  /\ InitBuildState

Next ==
  \/ StartBuild
  \/ BatchSearchOk
  \/ BatchSearchErrors
  \/ BatchSearchRejected
  \/ PageLoop
  \/ PBegin
  \/ PBody
  \/ PFetchMore
  \/ PFetchNoData
  \/ PFetchRejected
  \/ PFetchDone
  \/ PClassify
  \/ PUpdateLoop
  \/ PAddLoop
  \/ ExecuteMutation
  \/ GeneratePages

Spec == Init /\ [][Next]_vars

(***************************************************************************)
(* Properties of the reconciler                                            *)
(***************************************************************************)
\* this step sends a mutating request
MutationSent == callNo' # callNo /\ lastCall'.mutation

\* this step is the return of processPageReactions with true
PageReturnsTrue == pc = "inpage" /\ pc' = "loop" /\ successCount' = successCount + 1

manifestIds(p) == { manifest[p][i].image : i \in 1..Len(manifest[p]) }

\* the number of comments that carry the marker of imageId
countFor(comments, imageId) ==
  Cardinality({ i \in 1..Len(comments) : parseImageId(comments[i].body) = imageId })

\* page p's discussion is fully synced with the manifest
Synced(p) ==
  LET r == remote[p]
  IN /\ r.exists /\ r.extra = 0 /\ r.locked
     /\ r.body = buildDiscussionBody(contextOfPage(p))
     /\ Len(r.comments) = Len(manifest[p])
     /\ \A imageId \in manifestIds(p) :
          \E i \in 1..Len(r.comments) :
            /\ parseImageId(r.comments[i].body) = imageId
            /\ isCurrentFormat(r.comments[i].body)

\* C1 (as claimed): while the discussion of a page is fully synced with the
\* manifest (it exists once, is locked, has the current body and exactly one
\* current-format comment per manifest imageId), no mutating request is sent
\* for that page.
C1_Idempotency ==
  [][ MutationSent => ~Synced(lastCall'.page) ]_vars

C3_ConvergenceAdded ==
  [][ (/\ PageReturnsTrue
       /\ \A imageId \in manifestIds(curPage) :
            countFor(prior[curPage].comments, imageId) <= 1)
      => \A imageId \in manifestIds(curPage) :
           countFor(remote'[curPage].comments, imageId) = 1 ]_vars

\* C4 (as claimed): when processPageReactions returns true the discussion
\* holds no comment whose imageId is absent from the manifest and no comment
\* without a parseable marker.
C4_ConvergenceRemoved ==
  [][ PageReturnsTrue
      => \A i \in 1..Len(remote'[curPage].comments) :
           parseImageId(remote'[curPage].comments[i].body) \in manifestIds(curPage) ]_vars

\* C5 (as claimed): when processPageReactions returns true, the one comment
\* the discussion held for a manifest image has the body the manifest entry
\* renders to.
C5_ConvergenceEdited ==
  [][ PageReturnsTrue
      => \A k \in 1..Len(manifest[curPage]) :
           \A i \in 1..Len(prior[curPage].comments) :
             (/\ countFor(prior[curPage].comments, manifest[curPage][k].image) = 1
              /\ parseImageId(prior[curPage].comments[i].body) = manifest[curPage][k].image)
             => remote'[curPage].comments[i].body
                  = buildCommentBody(manifest[curPage][k], contextOfPage(curPage)) ]_vars

\* C6 (as claimed): when the fetched comments held two or more comments with
\* the same imageId and processPageReactions returns true, exactly one
\* comment with that imageId is left in the discussion.
C6_DuplicateResolution ==
  [][ PageReturnsTrue
      => \A i \in 1..Len(allComments) :
           LET imageId == parseImageId(allComments[i].body)
           IN (imageId # NoId /\ countFor(allComments, imageId) >= 2)
              => countFor(remote'[curPage].comments, imageId) = 1 ]_vars

\* C7 (as claimed): the classification step runs over all the comments of the
\* discussion, the first page followed by every continuation page.
C7_PaginationComplete ==
  (pc = "inpage" /\ ppc = "classify") => allComments = remote[curPage].comments

\* the number of pages among the first n entered whose processing returned true
successesBefore(n) == Cardinality({ i \in 1..(n - 1) : results[i] })

\* C11: no failure of an API call leaves the handler: the handler is always
\* at one of its own positions, and inside processPageReactions at a position
\* with a next step (every such position has a step whatever the API does);
\* processPageReactions is only left by a return to the loop; a page that
\* returned false is not counted; from the head of the loop the next page is
\* entered exactly when abortAll is not set, and otherwise the handler logs the
\* summary and returns.
C11_FailureIsolation ==
  /\ [](pc \in {"idle", "search", "loop", "inpage", "done", "generated"})
  /\ [](pc = "inpage" =>
          ppc \in {"begin", "body", "fetch", "classify", "update", "add"} \cup MutationLabels)
  /\ [][ /\ (pc = "search" /\ pc' # "search") => pc' \in {"loop", "done"}
         /\ (pc = "inpage" /\ pc' # "inpage")
              => /\ pc' = "loop" /\ pageIdx' = pageIdx + 1
                 /\ Len(results') = Len(results) + 1
                 /\ successCount' = successCount + (IF results'[Len(results')] THEN 1 ELSE 0)
         /\ (pc = "loop" /\ pageIdx <= Len(allPageInfos))
              => /\ ~abortAll => (pc' = "inpage" /\ ppc' = "begin")
                 /\ abortAll => (pc' = "done" /\ summary' = successCount) ]_vars

\* page 1 failed without an abort, page 2 was processed after it and counted,
\* and the handler returned with the summary
C11_Witness ==
  /\ pc = "done" /\ ~abortAll
  /\ results = <<FALSE, TRUE>>
  /\ summary = 1

\* C12: when the build has ended with abortAll set while page k was being
\* processed, the summary line was logged, its count is the number of pages
\* before k that returned true, page k is not counted, and no request was
\* sent for a page after k; while abortAll is set no step sends a request.
C12_SummaryAfterAbort ==
  /\ [](pc = "done" /\ abortAll
          => /\ Len(results) >= 1
             /\ ~results[Len(results)]
             /\ summary # NoValue
             /\ summary = successesBefore(Len(results))
             /\ \A i \in (Len(results) + 1)..Len(allPageInfos) :
                  lastCall.page # allPageInfos[i])
  /\ [][ abortAll => callNo' = callNo ]_vars

\* the build was aborted while page 1 was processed: the summary counts no
\* page, and page 2 was left unprocessed
C12_Witness ==
  /\ pc = "done" /\ abortAll
  /\ Len(results) = 1 /\ Len(allPageInfos) = 2
  /\ summary = 0
  /\ lastCall.page = 1

\* C13 (as claimed): when the handler has returned, every discussion the
\* build changed is locked.
C13_LockInvariant ==
  pc = "done" =>
    \A p \in Pages : (remote[p].exists /\ remote[p] # prior[p]) => remote[p].locked

\* C20 (as claimed): every page that processPageReactions returned true for
\* in this build is generated with a reactions payload that is not null.
C20_IdentifierHandOff ==
  pc = "generated" =>
    \A i \in 1..Len(results) :
      results[i] => /\ generated[allPageInfos[i]].exists
                    /\ generated[allPageInfos[i]].masonryReactions # NoValue

C26_UnlockOnlyBeforeMutation ==
  /\ [][ (MutationSent /\ lastCall'.op = "unlockLockable")
           => /\ discussion.locked /\ remote[curPage].locked
              /\ Len(commentsToUpdate) + Len(newImages) >= 1 ]_vars
  /\ [][ (MutationSent /\ lastCall'.op = "lockLockable")
           => /\ ~remote[curPage].locked
              /\ ppc = "lockIdle" => Len(commentsToUpdate) + Len(newImages) = 0 ]_vars

\* a locked discussion was unlocked, changed and locked again; another page's
\* locked discussion needed nothing and was left alone
C26_Witness ==
  /\ pc = "loop" /\ results = <<TRUE>>
  /\ prior[1].exists /\ prior[1].locked /\ remote[1].locked
  /\ remote[1].comments # prior[1].comments
  /\ lastCall.op = "lockLockable" /\ lastCall.page = 1

\* C28 (as claimed): the repository never holds a second discussion with the
\* title of a page, and createDiscussion is issued for a page only when no
\* discussion with that title exists in the repository.
C28_UniqueDiscussion ==
  /\ [](\A p \in Pages : remote[p].extra = 0)
  /\ [][ (MutationSent /\ lastCall'.op = "createDiscussion")
           => ~remote[lastCall'.page].exists ]_vars

\* C32 (as claimed): no addDiscussionComment is issued for an imageId for
\* which the discussion in the repository already holds a comment with that
\* imageId's marker.
C32_NoDuplicateComment ==
  [][ (MutationSent /\ lastCall'.op = "addDiscussionComment")
        => countFor(remote[lastCall'.page].comments, lastCall'.target) = 0 ]_vars

\* C33 (as claimed): a page whose mutations were all accepted by the API, no
\* request of the build having failed, and whose closing lockLockable has just
\* been applied, is counted as processed, whatever x-ratelimit-remaining the
\* response to that lock reports.
C33_AppliedWorkCounted ==
  [][ (/\ pc = "inpage" /\ pc' = "loop"
       /\ MutationSent /\ lastCall'.op = "lockLockable"
       /\ remote' # remote
       /\ faults' = MaxFaults)
        => /\ results'[Len(results')]
           /\ successCount' = successCount + 1 ]_vars

\* C37: every addDiscussionComment and every updateDiscussionComment is
\* issued while the discussion of its page is unlocked in the repository.
C37_MutationsWhileUnlocked ==
  [][ (MutationSent
       /\ lastCall'.op \in {"addDiscussionComment", "updateDiscussionComment"})
        => /\ remote[lastCall'.page].exists
           /\ ~remote[lastCall'.page].locked ]_vars

\* a comment was rewritten in a discussion that had been found locked
C37_Witness ==
  /\ pc = "inpage" /\ curPage = 1
  /\ prior[1].exists /\ prior[1].locked /\ ~remote[1].locked
  /\ lastCall.op = "updateDiscussionComment" /\ lastCall.page = 1
  /\ remote[1].comments # prior[1].comments

(***************************************************************************)
(* SpecBuilds: several builds in one process (hexo server)                 *)
(***************************************************************************)
\* page 1's discussion before the first build: none, or one with the old
\* body that holds more comments than one page of the query returns
RemotesBuilds ==
  { NoRemote,
    [exists |-> TRUE, body |-> oldDiscussionBody(1), locked |-> TRUE,
     comments |-> withIds(<< oldCommentBody(IdSunset, <<"Sunset">>),
                             buildCommentBody(E_Beach, ctxOfBodies(1)),
                             manualCommentBody >>),
     extra |-> 0],
    [exists |-> TRUE,
     body |-> buildDiscussionBody(ContextOf(pageTitleOf(1), "1", avifEnabled)),
     locked |-> TRUE,
     comments |-> withIds(<< buildCommentBody(E_Sunset, ctxOfBodies(1)) >>),
     extra |-> 0] }

InitBuilds ==
  /\ BodyOff
  /\ ClientOff
  /\ manifest = [p \in Pages |-> IF p = 1 THEN <<E_Sunset, E_Beach>> ELSE ManifestOther]
  /\ \E r1 \in RemotesBuilds :
       remote = [p \in Pages |-> IF p = 1 THEN r1 ELSE RemoteOther(p)]
  /\ prior = remote
  /\ pc = "idle"
  /\ faults = MaxFaults
  /\ InitBuildState

NextBuilds == Next \/ Rebuild

SpecBuilds == InitBuilds /\ [][NextBuilds]_vars

\* the configuration of the build lacks the giscus block, one of author_pat,
\* repo, repo_id, category_id, or has comments disabled
configMissing == \E k \in DOMAIN config : ~config[k]

\* C14: a build whose configuration is incomplete sends no request at all,
\* read or mutation, and the handler returns without entering the search or
\* a page.
C14_ConfigNoop ==
  /\ [](builds > 0 /\ configMissing => pc \in {"idle", "done", "generated"})
  /\ [][ (pc = "idle" /\ \E k \in DOMAIN config' : ~config'[k])
           => (pc' = "done" /\ callNo' = callNo /\ lastCall' = lastCall /\ remote' = remote)
       ]_vars
  /\ [][ (builds > 0 /\ configMissing /\ pc # "idle") => callNo' = callNo ]_vars

\* the second build of the process found author_pat missing and returned
\* without a request, after a first build that had sent requests
C14_Witness ==
  /\ pc = "done" /\ builds = 2
  /\ ~config["author_pat"]
  /\ lastCall # NoCall
  /\ results = <<>>

\* this step ends a page, or the loop before its last page, without a request
\* because of the rate limit
RateLimitStop ==
  /\ callNo' = callNo
  /\ \/ pc = "inpage" /\ ppc \in MutationLabels \cup {"begin"} /\ pc' = "loop"
     \/ pc = "loop" /\ pageIdx <= Len(allPageInfos) /\ pc' = "done"

\* C15: in every build the first request is sent with the counter and the
\* abort flag reset, and a call fails fast or a page is skipped only after a
\* response of the same build has reported a counter of zero.
C15_BuildScopedState ==
  /\ [](pc = "search" /\ pageIdx = 1 => ~abortAll /\ rateLimitRemaining = NoValue)
  /\ [][ RateLimitStop => everZero ]_vars

\* the previous build left abortAll set, and the second build changed the
\* repository and processed a page successfully
C15_Witness ==
  /\ builds = 2 /\ leftAbort
  /\ results # <<>> /\ results[1]
  /\ remote # prior

\* C27 (as claimed): whenever the body stored for an existing discussion
\* differs from the body rendered from the current manifest and site metadata
\* (it lacks the current title, link, image count or attribution), the
\* reconciler goes on to issue updateDiscussion with the rendered body.
C27_StaleBody ==
  [][ (/\ InPage("body")
       /\ "body" \in DOMAIN discussion
       /\ discussion.body # buildDiscussionBody(contextOfPage(curPage)))
        => ppc' = "updBody" ]_vars

(***************************************************************************)
(* SpecRetry: one build against an API that fails up to three times        *)
(***************************************************************************)
MaxRetryFaults == 3   \* failures the API answers with in the build

InitRetry ==
  /\ BodyOff
  /\ ClientOff
  /\ manifest = [p \in Pages |-> IF p = 1 THEN <<E_Sunset, E_Beach>> ELSE ManifestOther]
  /\ remote = [p \in Pages |->
                 IF p = 1
                 THEN [exists |-> TRUE, body |-> oldDiscussionBody(1), locked |-> TRUE,
                       comments |-> withIds(<< oldCommentBody(IdSunset, <<"Sunset">>),
                                               buildCommentBody(E_Beach, ctxOfBodies(1)),
                                               manualCommentBody >>),
                       extra |-> 0]
                 ELSE RemoteOther(p)]
  /\ prior = remote
  /\ pc = "idle"
  /\ faults = MaxRetryFaults
  /\ InitBuildState

SpecRetry == InitRetry /\ [][Next]_vars

\* C23: one executeMutation call sends at most three requests, numbered 0, 1
\* and 2, and every step of it either sends a request and goes on to the next
\* attempt (only after attempts 0 and 1), or throws to the catch of
\* processPageReactions, or returns to its caller in the step in which a
\* request was answered; it never returns without a request having been sent.
C23_BoundedRetry ==
  /\ [](InMutation => attempt \in 0..2)
  /\ [](lastCall.attempt \in 0..2)
  /\ [][ InMutation
           => \/ /\ MutationSent /\ lastCall'.attempt = attempt /\ attempt < 2
                 /\ pc' = "inpage" /\ ppc' = ppc /\ loopIdx' = loopIdx
                 /\ attempt' = attempt + 1 /\ remote' = remote
              \/ /\ pc' = "loop" /\ thrown' # <<>> /\ ~results'[Len(results')]
                 /\ MutationSent => lastCall'.attempt = attempt
              \/ /\ MutationSent /\ lastCall'.attempt = attempt /\ thrown' = <<>>
                 /\ ~(pc' = "inpage" /\ ppc' = ppc /\ loopIdx' = loopIdx)
                 /\ remote'[curPage] = applyMutation(ppc, curPage) ]_vars

\* the third request of one call was sent and the call threw, without an abort
C23_Witness ==
  /\ pc = "loop" /\ ~abortAll /\ thrown # <<>>
  /\ lastCall.mutation /\ lastCall.attempt = 2
  /\ faults = 0

\* the third request of an executeMutation call was sent, the call threw and
\* the error is not the abort of the primary rate limit
RetriesExhausted ==
  /\ pc \in {"loop", "done", "generated"}
  /\ lastCall.mutation /\ lastCall.attempt = 2
  /\ thrown # <<>> /\ thrown \notin {AbortedPrimary, AbortedRemaining}

\* C24 (as claimed): whenever executeMutation exhausts its retries, through
\* network failures or through secondary-rate-limit errors, the message of the
\* error it raises contains the label its caller passed.
C24_LabeledFailure ==
  RetriesExhausted
    => IncludesSeq(thrown, labelFor(lastCall.op, lastCall.page, lastCall.target))

\* C25: after a secondary-rate-limit response to attempt n (n = 1 or 2)
\* executeMutation sleeps the seconds of the retry-after header when the
\* response carries one and 5 * n seconds otherwise, and only then sends the
\* next attempt; a secondary-rate-limit response to attempt 3 is followed by no
\* sleep: the call throws the error that quotes it.
C25_Backoff ==
  /\ [](waited # NoBackoff
          => /\ waited.attempt \in {1, 2}
             /\ waited.seconds = IF waited.retryAfter.text # <<>>
                                 THEN waited.retryAfter.seconds
                                 ELSE 5 * waited.attempt)
  /\ [](Includes(thrown, "secondary rate limit")
          => lastCall.attempt = 2 /\ waited = NoBackoff)
  /\ [][ waited' # NoBackoff
           => /\ InMutation /\ MutationSent /\ attempt < 2
              /\ waited'.attempt = attempt + 1
              /\ attempt' = attempt + 1 /\ ppc' = ppc ]_vars
  /\ [][ (InMutation /\ attempt = 2) => waited' = NoBackoff ]_vars

\* the second attempt met a secondary rate limit without a retry-after header
C25_Witness ==
  /\ InMutation /\ attempt = 2
  /\ waited # NoBackoff /\ waited.attempt = 2
  /\ waited.retryAfter.text = <<>> /\ waited.seconds = 10

\* the message of a GraphQL error that matches no secondary-rate-limit pattern
OtherError == "Resource not accessible by personal access token"

\* C36: a response whose errors match none of the secondary-rate-limit
\* patterns is never followed by a backoff and a further attempt: the call
\* throws the error quoting it in the step that received it, whatever the
\* attempt; an attempt is repeated only after a backoff for errors that match
\* a pattern, or after a request that brought no response.
C36_NonRetryable ==
  /\ [](waited # NoBackoff
          => \E i \in 1..Len(waited.errors) :
               \/ Includes(waited.errors[i].message, "submitted too quickly")
               \/ Includes(waited.errors[i].message, "abuse")
               \/ Includes(waited.errors[i].message, "secondary rate limit"))
  /\ [][ Includes(thrown', OtherError) /\ ~Includes(thrown, OtherError)
           => /\ InMutation /\ MutationSent /\ lastCall'.attempt = attempt
              /\ pc' = "loop" /\ ~results'[Len(results')] ]_vars
  /\ [][ (InMutation /\ pc' = "inpage" /\ ppc' = ppc /\ attempt' = attempt + 1)
           => \/ waited' # NoBackoff
              \/ rateLimitRemaining' = rateLimitRemaining /\ everZero' = everZero ]_vars

\* the first attempt of a mutation was answered with such errors and the call
\* threw at once
C36_Witness ==
  /\ pc = "loop" /\ Includes(thrown, OtherError)
  /\ lastCall.mutation /\ lastCall.attempt = 0
  /\ faults = MaxRetryFaults - 1

(***************************************************************************)
(* SpecBody: build a comment body from an entry, then parse it             *)
(***************************************************************************)
InitBody ==
  /\ imageData \in { EntryOf(id, t, d, m) :
                       id \in ImageIds, t \in Titles, d \in Descriptions, m \in Makes }
  /\ context \in { ContextOf(<<"Travel">>, "1", a) : a \in BOOLEAN }
  /\ commentBody = <<>>
  /\ parsedId = NoId
  /\ bpc = "start"
  /\ RelayOff
  /\ MatchOff
  /\ RecOff
  /\ ClientOff

BuildBody ==
  /\ bpc = "start"
  /\ commentBody' = buildCommentBody(imageData, context)
  /\ bpc' = "built"
  /\ UNCHANGED <<imageData, context, parsedId, relayVars, matchVars, recVars, clientVars>>

ParseBody ==
  /\ bpc = "built"
  /\ parsedId' = parseImageId(commentBody)
  /\ bpc' = "parsed"
  /\ UNCHANGED <<imageData, context, commentBody, relayVars, matchVars, recVars, clientVars>>

NextBody == BuildBody \/ ParseBody

SpecBody == InitBody /\ [][NextBody]_vars

\* C8 (as claimed): the body built for an entry carries the literal marker of
\* its imageId, and parseImageId of that body returns exactly that imageId,
\* whatever the title, description and attribute values are.
C8_MarkerRoundTrip ==
  bpc = "parsed" =>
    /\ IncludesSeq(commentBody, <<BT, "masonry-image:">> \o imageData.image \o <<BT>>)
    /\ parsedId = imageData.image

(***************************************************************************)
(* SpecClient: one visitor in one tab                                      *)
(***************************************************************************)
\* what the visitor's browser starts from on gallery page 1 of a site whose
\* gallery pages list the images of imgs
InitBrowser(imgs) ==
  /\ BodyOff
  /\ RecOff
  /\ present = imgs
  /\ session \in BOOLEAN
  /\ server \in { f \in [ImageKeys -> [others : 0..MaxOthers, viewer : BOOLEAN]] :
                    \A i \in ImageKeys \ imgs : f[i] = [others |-> 0, viewer |-> FALSE] }
  /\ cache = [p \in ClientPages |-> NoCache]
  /\ buttons = [i \in ImageKeys |-> NoButton]
  /\ domPage = 1
  /\ location = "site"
  /\ tasks = {Task("init", 0)}
  /\ currentPagePath = 0
  /\ imageReactions = [i \in ImageKeys |-> NoEntry]
  /\ userToken = 0
  /\ isAuthenticated = FALSE
  /\ isInitialized = FALSE
  /\ lastToggle = NoToggle
  /\ now = 0
  /\ lastInit = NoInit

\* SpecClient: two gallery pages with one image each
InitClient == InitBrowser({1, 2})

\* SpecPaged: one gallery page with two images, whose discussion answers in
\* two pages of comments
InitPaged == InitBrowser({1, 3})

NextClient ==
  \/ InitStart
  \/ InitToken
  \/ LiveFetched
  \/ LiveChecked
  \/ ClickAnonymous
  \/ ClickToggle
  \/ ToggleDone
  \/ SignOutStorage
  \/ SignOutMessage
  \/ PageView
  \/ PageLoad

SpecClient == InitClient /\ [][NextClient]_vars

SpecPaged == InitPaged /\ [][NextClient]_vars

\* SpecExpiry: one gallery page with one image, and time passing
InitExpiry == InitBrowser({1})

NextExpiry == NextClient \/ Tick

SpecExpiry == InitExpiry /\ [][NextExpiry]_vars

\* the step before was the end of a click handler whose toggle failed
ToggleFailed == lastToggle # NoToggle /\ ~lastToggle.success

\* C9 (as claimed): while the client is not authenticated, no button in the
\* document shows viewerHasReacted = true.
C9_AnonymousRead ==
  ~isAuthenticated => \A i \in ImageKeys : buttons[i].exists => ~buttons[i].reacted

\* C10 (as claimed): when a click handler ends after its toggle failed, the
\* button of the image and the ReactionState of the image hold the values
\* (c, r) they had before the click; stated for a button that is still in the
\* document and an image that still has a ReactionState.
C10_OptimisticRevert ==
  (/\ ToggleFailed
   /\ buttons[lastToggle.img].exists
   /\ imageReactions[lastToggle.img] # NoEntry)
  => /\ buttons[lastToggle.img].count = lastToggle.c
     /\ buttons[lastToggle.img].reacted = lastToggle.r
     /\ imageReactions[lastToggle.img].heartCount = lastToggle.c
     /\ imageReactions[lastToggle.img].viewerHasReacted = lastToggle.r

\* this step is a sign-out handler, from its first to its last statement
SignOutStep == session /\ ~session'

\* C16 (as claimed): at the end of a sign-out handler the token is null, the
\* client is not authenticated, no ReactionState and no button in the document
\* has viewerHasReacted = true, and the heart count of every ReactionState is
\* as before.
C16_SignOut ==
  [][ SignOutStep =>
        /\ userToken' = 0 /\ ~isAuthenticated'
        /\ \A i \in ImageKeys :
             /\ ~imageReactions'[i].viewerHasReacted
             /\ imageReactions'[i].heartCount = imageReactions[i].heartCount
             /\ buttons'[i].exists => ~buttons'[i].reacted
    ]_vars

\* this step is the end of the fetch (or of the viewer check) that task t stands for
Completes(t) == location = "site" /\ t \in tasks /\ t \notin tasks'

\* C17 (as claimed): when a fetch that was started for another gallery page
\* than the one in the document completes, imageReactions, the buttons and the
\* cache entry of the page in the document stay as they are.
C17_NavigationReinit ==
  [][ \A t \in tasks :
        (t.kind \in {"live", "check"} /\ t.page # domPage /\ Completes(t))
        => /\ imageReactions' = imageReactions
           /\ buttons' = buttons
           /\ cache'[domPage] = cache[domPage] ]_vars

\* the toggles in flight that were started on the button of image i
InFlight(i) == { t \in tasks : t.kind = "click" /\ t.img = i /\ t.btn }

C19_ClientPagination ==
  [][ \A t \in tasks :
        (/\ t.kind = "live" /\ Completes(t)
         /\ imageReactions' # imageReactions \/ cache' # cache)
        => \A i \in imagesOf(t.page) :
             /\ imageReactions'[i] # NoEntry
             /\ cache'[t.page] # cache[t.page] => cache'[t.page].imageReactions[i] # NoEntry
    ]_vars

C30_CacheInvalidation ==
  (lastToggle # NoToggle /\ lastToggle.success)
    => ~cache[pageOfImage(lastToggle.img)].exists

\* C35 (as claimed): a toggle that has just completed without GitHub having
\* changed the viewer's reaction is treated as failed: the click's optimistic
\* values are not kept.
C35_ToggleFailureDetection ==
  (lastToggle # NoToggle /\ server[lastToggle.img].viewer = lastToggle.r)
    => ~lastToggle.success

\* C34 (as claimed): once a sign-out was handled (no giscus session is stored
\* and the client holds no token), no button of the page shows the viewer's
\* reaction, no ReactionState in memory has viewerHasReacted = true and the
\* page's cache entry holds none, whatever operation was in flight at the
\* sign-out.
C34_SignOutPersists ==
  (location = "site" /\ ~session /\ ~isAuthenticated /\ userToken = 0)
    => \A i \in ImageKeys :
         /\ ~(buttons[i].exists /\ buttons[i].reacted)
         /\ ~imageReactions[i].viewerHasReacted
         /\ ~cache[domPage].imageReactions[i].viewerHasReacted

\* C38: in every reachable state of the client the heart count of every image
\* is at least zero in memory, on its button and in every cache entry.
C38_NonNegativeCounts ==
  \A i \in ImageKeys :
    /\ imageReactions[i].heartCount >= 0
    /\ buttons[i].count >= 0
    /\ \A p \in ClientPages : cache[p].imageReactions[i].heartCount >= 0

\* a heart is withdrawn from an image whose count in memory was zero: the click
\* in flight remembers count 0 with the viewer's reaction, and the page shows 0
C38_Witness ==
  \E t \in tasks :
    /\ t.kind = "click" /\ t.r /\ t.c = 0
    /\ imageReactions[t.img].heartCount = 0
    /\ ~imageReactions[t.img].viewerHasReacted

(***************************************************************************)
(* SpecRelay: workflows/giscus-cors-proxy/worker.js, one request after the *)
(* other.  Origins and paths are token sequences; a missing Origin header  *)
(* is <<>>.                                                                *)
(***************************************************************************)
GISCUS_ORIGIN == <<"https://giscus.app">>

ALLOWED_ORIGINS == << <<"https://blog.jason-yang.top">>, <<"http://localhost:4000">> >>

ALLOWED_PATHS ==
  << <<"/api/discussions">>, <<"/api/discussions", "/categories">>, <<"/api/oauth/token">> >>

\* the Origin headers, methods and paths of the requests the worker receives
Origins ==
  { <<>>, ALLOWED_ORIGINS[1], ALLOWED_ORIGINS[2], GISCUS_ORIGIN,
    <<"https://evil.example">>, <<"https://blog.jason-yang.top", ".evil.example">> }

Methods == {"GET", "POST", "OPTIONS"}

Paths ==
  { <<"/">>, <<"/en/widget">>, <<"/api/discussions">>, <<"/api/discussions", "/categories">>,
    <<"/api/oauth/token">>, <<"/api/discussions", "-export">>, <<"/api/oauth/token", "s">> }

Requests ==
  [method : Methods, origin : Origins, path : Paths, authorization : BOOLEAN]

\* what giscus.app answers: a status and its own Access-Control-Allow-Origin
UpstreamResponses == [status : {200, 403}, allowOrigin : {<<>>, GISCUS_ORIGIN}]

\* ALLOWED_ORIGINS.includes(origin)
originAllowed(origin) == \E k \in 1..Len(ALLOWED_ORIGINS) : ALLOWED_ORIGINS[k] = origin

\* path.startsWith(p)
startsWith(path, p) == Len(p) <= Len(path) /\ SubSeq(path, 1, Len(p)) = p

\* line 45: ALLOWED_PATHS.some(p => path.startsWith(p))
pathAllowed(path) == \E k \in 1..Len(ALLOWED_PATHS) : startsWith(path, ALLOWED_PATHS[k])

\* lines 111-119: the Access-Control-Allow-Origin of corsHeaders(origin)
corsHeaders(origin) == IF originAllowed(origin) THEN origin ELSE ALLOWED_ORIGINS[1]

\* lines 104-109
handlePreflight(origin) ==
  [status |-> 204, allowOrigin |-> corsHeaders(origin), allowCredentials |-> FALSE,
   body |-> ""]

\* lines 82-100: the upstream response with the worker's CORS headers set
relayed(up, origin) ==
  [status |-> up.status,
   allowOrigin |-> IF originAllowed(origin) THEN origin ELSE ALLOWED_ORIGINS[1],
   allowCredentials |-> TRUE,
   body |-> "upstream"]

InitRelay ==
  /\ request = NoRelayRequest
  /\ response = NoRelayResponse
  /\ fetched = <<>>
  /\ rpc = "idle"
  /\ BodyOnlyOff
  /\ MatchOff
  /\ RecOff
  /\ ClientOff

RelayIdle == UNCHANGED <<bodyVars, matchVars, recVars, clientVars>>

\* lines 34-76: a request arrives; the handler runs up to its upstream fetch
Fetch ==
  /\ rpc \in {"idle", "answered"}
  /\ \E req \in Requests :
       /\ request' = req
       /\ IF req.method = "OPTIONS"
          THEN /\ response' = handlePreflight(req.origin)
               /\ fetched' = <<>>
               /\ rpc' = "answered"
          ELSE IF ~pathAllowed(req.path)
          THEN /\ response' = [status |-> 404, allowOrigin |-> <<>>,
                               allowCredentials |-> FALSE, body |-> "Not Found"]
               /\ fetched' = <<>>
               /\ rpc' = "answered"
          ELSE /\ response' = NoRelayResponse
               /\ fetched' = << [url |-> GISCUS_ORIGIN \o req.path, method |-> req.method,
                                 authorization |-> req.authorization] >>
               /\ rpc' = "fetching"
  /\ RelayIdle

\* lines 82-100: giscus.app answered
Relayed ==
  /\ rpc = "fetching"
  /\ \E up \in UpstreamResponses : response' = relayed(up, request.origin)
  /\ rpc' = "answered"
  /\ UNCHANGED <<request, fetched>>
  /\ RelayIdle

\* lines 75-80: the upstream fetch threw
ProxyFailed ==
  /\ rpc = "fetching"
  /\ response' = [status |-> 502, allowOrigin |-> corsHeaders(request.origin),
                  allowCredentials |-> FALSE, body |-> "Proxy fetch failed"]
  /\ rpc' = "answered"
  /\ UNCHANGED <<request, fetched>>
  /\ RelayIdle

NextRelay == Fetch \/ Relayed \/ ProxyFailed

SpecRelay == InitRelay /\ [][NextRelay]_vars

\* the configured values as sets
AllowedOriginSet == { ALLOWED_ORIGINS[k] : k \in 1..Len(ALLOWED_ORIGINS) }

AllowedPathSet == { ALLOWED_PATHS[k] : k \in 1..Len(ALLOWED_PATHS) }

\* C39 (as claimed): the Access-Control-Allow-Origin of every response of the
\* relay is one of the configured origins, and a request that is no preflight
\* and whose path is not one of the allowed API paths is answered 404 without
\* a request to giscus.app.
C39_OriginWhitelist ==
  /\ (rpc = "answered" /\ response.allowOrigin # <<>>)
       => response.allowOrigin \in AllowedOriginSet
  /\ (request # NoRelayRequest /\ request.method # "OPTIONS"
        /\ request.path \notin AllowedPathSet)
       => /\ rpc = "answered"
          /\ response.status = 404
          /\ fetched = <<>>

\* the first half of C39 alone: no response names an origin outside the list
C39_AllowOrigin ==
  (rpc = "answered" /\ response.allowOrigin # <<>>)
    => response.allowOrigin \in AllowedOriginSet

(***************************************************************************)
(* SpecMatch: initializeHeartButtons on bounded manifests and documents.   *)
(* A path is a token sequence whose last token is its extension; "pic"     *)
(* and "pic", "2" spell two file names of which the first is the start of  *)
(* the second.                                                             *)
(***************************************************************************)
MaxContainers == 2     \* gallery image elements in the document

IdPic  == <<"img", "/", "pic", ".jpg">>
IdPic2 == <<"img", "/", "pic", "2", ".jpg">>
IdSea  == <<"img", "/", "my", " ", "sea", ".png">>

\* the manifests: the ids in any order, without repetition
MatchManifests ==
  { m \in UNION { [1..n -> {IdPic, IdPic2, IdSea}] : n \in 1..3 } :
      \A a, b \in DOMAIN m : a # b => m[a] # m[b] }

\* the lossy format the image filters convert to
LossyExt == ".avif"

UrlSuffixes == { <<>>, <<"?", "v=2">>, <<"#", "top">> }

\* the URL an element renders for an image id
renderedUrl(id, swapped, encoded, suffix) ==
  LET base == SubSeq(id, 1, Len(id) - 1)
  IN <<"/">> \o (IF encoded THEN encodeURI(base) ELSE base)
       \o <<IF swapped THEN LossyExt ELSE id[Len(id)]>> \o suffix

\* an .image-container: the data-src of its .img-preloader and of its img (""
\* when the element or the attribute is missing), the buttons appended to it
\* and dataset.imageId; entry is the manifest entry it renders
ContainersOf(m) ==
  { [entry |-> e,
     preloader |-> IF viaPreloader THEN renderedUrl(m[e], sw, enc, suf) ELSE <<>>,
     img |-> IF viaPreloader THEN <<>> ELSE renderedUrl(m[e], sw, enc, suf),
     imageId |-> <<>>,
     buttons |-> <<>>] :
      e \in DOMAIN m, sw \in BOOLEAN, enc \in BOOLEAN, suf \in UrlSuffixes,
      viaPreloader \in BOOLEAN }

\* str.split(sep)[0]
beforeToken(str, sep) ==
  IF Includes(str, sep)
  THEN SubSeq(str, 1, Min({ k \in 1..Len(str) : str[k] = sep }) - 1)
  ELSE str

decodeURIComponent(str) == [k \in 1..Len(str) |-> IF str[k] = "%20" THEN " " ELSE str[k]]

\* str.replace(/\.[^.\/]+$/, "")
stripExtension(str) ==
  IF str # <<>> /\ str[Len(str)] \in ExtTokens \cup {LossyExt}
  THEN SubSeq(str, 1, Len(str) - 1)
  ELSE str

\* lines 328-340; null is <<>>
findImageIdFromSrc(src, imageIdSet) ==
  IF src = <<>> THEN <<>>
  ELSE LET cleanSrc == decodeURIComponent(beforeToken(beforeToken(src, "#"), "?"))
           srcBase == stripExtension(cleanSrc)
           Hits == { k \in 1..Len(imageIdSet) :
                       IncludesSeq(srcBase, stripExtension(imageIdSet[k])) }
       IN IF Hits = {} THEN <<>> ELSE imageIdSet[Min(Hits)]

\* lines 295-322: the body of items.forEach for one container
attachButton(container, imageIdSet) ==
  IF container.buttons # <<>> THEN container
  ELSE LET src == IF container.preloader # <<>> THEN container.preloader ELSE container.img
           imageId == findImageIdFromSrc(src, imageIdSet)
       IN IF src = <<>> \/ imageId = <<>> THEN container
          ELSE [container EXCEPT !.imageId = imageId, !.buttons = Append(@, imageId)]

InitMatch ==
  /\ imageIds \in MatchManifests
  /\ containers \in UNION { [1..n -> ContainersOf(imageIds)] : n \in 1..MaxContainers }
  /\ mpc = "ready"
  /\ BodyOnlyOff
  /\ RelayOff
  /\ RecOff
  /\ ClientOff

\* lines 292-323; init runs it on every page load and after every swup visit
MatchButtons ==
  /\ mpc \in {"ready", "matched"}
  /\ containers' = [k \in DOMAIN containers |-> attachButton(containers[k], imageIds)]
  /\ mpc' = IF mpc = "ready" THEN "matched" ELSE "rematched"
  /\ UNCHANGED <<imageIds, bodyVars, relayVars, recVars, clientVars>>

NextMatch == MatchButtons

SpecMatch == InitMatch /\ [][NextMatch]_vars

\* C31 (as claimed): once initializeHeartButtons has run, every element that
\* renders the URL of manifest entry i carries exactly one button, and that
\* button is for imageId i.
C31_ImageMatching ==
  (mpc \in {"matched", "rematched"})
    => \A k \in DOMAIN containers :
         containers[k].buttons = << imageIds[containers[k].entry] >>

\* the second half of C31 alone: no element carries more than one button
C31_OneButton ==
  \A k \in DOMAIN containers : Len(containers[k].buttons) <= 1

====
